---- MODULE Spec2Model ----
(***************************************************************************)
(* Font catalog (FontLibraryData), font resolver (FontContext) of          *)
(* sugarloaf/src/font/mod.rs.                                              *)
(*                                                                         *)
(* Option<T> values are sequences: None is << >>, Some(x) is <<x>>.        *)
(* Vec indices are 0-based in the source and 1-based here: the face of     *)
(* slot s of a catalog is inner[s + 1].                                    *)
(***************************************************************************)
EXTENDS Integers, Sequences, FiniteSets, TLC

VARIABLES
    fonts_spec,         \* SugarloafFonts handed to FontLibrary::new
    db,                 \* host font index: family -> what a query for it gives
    load_status,        \* "new" before FontLibraryData::load, then "done" or "panic"
    library,            \* FontLibraryData: inner (loaded faces), lazy_inner
    fonts_not_found,    \* the list FontLibraryData::load returns
    cached,             \* FontContext.cached: slot -> face
    emoji,              \* FontContext.emoji
    emoji_last_usage,   \* FontContext.emoji_last_usage
    now,                \* the monotonic clock read by Instant::now(), in seconds
    call,               \* the last map_cluster call: inputs, outcome, state before
    crashed,            \* a panic has unwound the thread
    el,                 \* the Elementary compositor
    tree,               \* the SugarTree whose layout update reads
    last,               \* the last compositor operation: input, x-cursor, state before
    ops,                \* the compositor operations made so far
    flight,             \* a map_cluster call between its two read-lock sections
    assistant           \* the errors reported to the route's assistant

vars == <<fonts_spec, db, load_status, library, fonts_not_found,
          cached, emoji, emoji_last_usage, now, call, crashed,
          el, tree, last, ops, flight, assistant>>

loadVars == <<fonts_spec, db, load_status, library, fonts_not_found, assistant>>
ctxVars == <<cached, emoji, emoji_last_usage>>
resolverVars == <<loadVars, ctxVars, now, call, crashed, flight>>
layoutVars == <<el, tree, last, ops>>

None == << >>
Some(x) == <<x>>
IsSome(o) == o /= << >>
Unwrap(o) == o[1]

(***************************************************************************)
(* Program constants                                                       *)
(***************************************************************************)
FONT_ID_REGULAR == 0
FONT_ID_ITALIC == 1
FONT_ID_BOLD == 2
FONT_ID_BOLD_ITALIC == 3
IdleSecs == 4
DefaultWeight == 400

(***************************************************************************)
(* Bounds                                                                  *)
(***************************************************************************)
MaxTime == 6
TickSecs == 2
MaxExtras == 1
MaxCells == 2
MaxOps == 3
MaxTexts == 1

(***************************************************************************)
(* Characters.  A cluster is one character; its classification             *)
(* (cluster.info().is_emoji()) is a property of the character.             *)
(*   a  text, in every text face                                           *)
(*   h  emoji-classified, in the embedded default face and the emoji face  *)
(*   k  text, only in the fallback and extra families                      *)
(*   n  text, only in the embedded symbol face                             *)
(*   e  emoji, only in the emoji face                                      *)
(*   x  emoji-classified, in no face                                       *)
(*   u  text, in no face                                                   *)
(***************************************************************************)
Chars == {"a", "h", "k", "n", "e", "x", "u"}
IsEmoji(c) == c \in {"h", "e", "x"}

(***************************************************************************)
(* Families are sequences of words, so that String::contains("Emoji")      *)
(* is a search and not a flag.                                             *)
(***************************************************************************)
DefaultFamily == <<"cascadiamono">>
UserMono == <<"User", "Mono">>
NotoSans == <<"Noto", "Sans">>
NotoEmoji == <<"Noto", "Color", "Emoji">>
ExtraFont == <<"Extra", "Font">>

SystemFamilies == {UserMono, NotoSans, NotoEmoji, ExtraFont}

Contains(name, word) == \E i \in 1..Len(name) : name[i] = word

\* fallbacks::external_fallbacks()
ExternalFallbacks == <<NotoSans, NotoEmoji>>

\* What the host font index and the file system give for a family:
\*   none       db.query finds nothing
\*   notfile    the face source is not Source::File
\*   noopen     File::open fails
\*   noread     read_to_end fails
\*   badfont    the bytes are not a font (FontRef::from_index gives None)
\*   ok         a font file of that family
DbOutcomes == {"none", "notfile", "noopen", "noread", "badfont", "ok"}
FileOutcomes == {"noopen", "noread", "badfont", "ok"}

DefaultCharmap == {"a", "h"}
SymbolCharmap == {"n"}
FamilyCharmap(name) ==
    IF name = UserMono THEN {"a"}
    ELSE IF name = NotoSans THEN {"a", "k"}
    ELSE IF name = ExtraFont THEN {"k"}
    ELSE IF name = NotoEmoji THEN {"e", "h"}
    ELSE {}

\* FontData: where the bytes came from and what was asked for.
FileFace(family, weight, style) ==
    [src |-> "file", name |-> family, weight |-> weight, style |-> style]
EmbeddedFace(name) ==
    [src |-> "embedded", name |-> <<name>>, weight |-> 0, style |-> ""]
SymbolFace ==
    [src |-> "symbols", name |-> <<"FONT_SYMBOLS_NERD_FONT_MONO">>,
     weight |-> 0, style |-> ""]
LazyFace(path) ==
    [src |-> "lazy", name |-> path, weight |-> 0, style |-> ""]

\* charmap_proxy().materialize(..): the characters the face has a glyph for
Charmap(face) ==
    IF face.src = "embedded" THEN DefaultCharmap
    ELSE IF face.src = "symbols" THEN SymbolCharmap
    ELSE FamilyCharmap(face.name)

\* cluster.map(|ch| charmap.map(ch)) on a fresh one-character cluster
ClusterMap(face, cluster) ==
    IF cluster \in Charmap(face) THEN "Complete" ELSE "Discard"

(***************************************************************************)
(* Font catalog: FontLibraryData::load and what it calls                   *)
(***************************************************************************)
\* SugarloafFont
SugarloafFont(family, weight, style) ==
    [family |-> family, weight |-> weight, style |-> style]

\* SugarloafFont::default()
DefaultSugarloafFont == SugarloafFont(DefaultFamily, None, None)

\* SugarloafFont::is_default_family
IsDefaultFamily(font_spec) == font_spec.family = DefaultFamily

\* str::to_lowercase on the style strings a configuration gives
ToLowercase(s) == IF s = "Italic" THEN "italic" ELSE s

\* the embedded face chosen by (weight, style) at the end of find_font
EmbeddedFontToLoad(weight, style) ==
    IF style = "italic" THEN
        CASE weight = 100 -> "FONT_CASCADIAMONO_EXTRA_LIGHT_ITALIC"
          [] weight = 200 -> "FONT_CASCADIAMONO_LIGHT_ITALIC"
          [] weight = 300 -> "FONT_CASCADIAMONO_SEMI_LIGHT_ITALIC"
          [] weight \in {400, 500} -> "FONT_CASCADIAMONO_ITALIC"
          [] weight \in {600, 700} -> "FONT_CASCADIAMONO_SEMI_BOLD_ITALIC"
          [] weight \in {800, 900} -> "FONT_CASCADIAMONO_BOLD_ITALIC"
          [] OTHER -> "FONT_CASCADIAMONO_ITALIC"
    ELSE
        CASE weight = 100 -> "FONT_CASCADIAMONO_EXTRA_LIGHT"
          [] weight = 200 -> "FONT_CASCADIAMONO_LIGHT"
          [] weight = 300 -> "FONT_CASCADIAMONO_SEMI_LIGHT"
          [] weight \in {400, 500} -> "FONT_CASCADIAMONO_REGULAR"
          [] weight \in {600, 700} -> "FONT_CASCADIAMONO_SEMI_BOLD"
          [] weight \in {800, 900} -> "FONT_CASCADIAMONO_BOLD"
          [] OTHER -> "FONT_CASCADIAMONO_REGULAR"

\* FontData::from_data on the bytes of a file: FontRef::from_index(..).unwrap()
\* panics on bytes that are not a font; there is no path that returns Err.
FontDataFromData(outcome) ==
    IF outcome = "badfont" THEN "panic" ELSE "Ok"

\* find_font: (FontData, is_fallback, not_found), or a panic
FindFont(d, font_spec) ==
    LET weight == IF IsSome(font_spec.weight) THEN Unwrap(font_spec.weight)
                  ELSE DefaultWeight
        style == ToLowercase(IF IsSome(font_spec.style)
                             THEN Unwrap(font_spec.style) ELSE "normal")
        query_style == IF style = "italic" THEN "Italic" ELSE "Normal"
        embedded(nf) ==
            [face |-> EmbeddedFace(EmbeddedFontToLoad(weight, style)),
             is_fallback |-> TRUE, not_found |-> nf, panic |-> FALSE]
        outcome == d[font_spec.family]
    IN  IF ~IsDefaultFamily(font_spec) THEN
            IF outcome = "none" THEN embedded(Some(font_spec))
            ELSE IF outcome \in {"notfile", "noopen", "noread"} THEN embedded(None)
            ELSE IF FontDataFromData(outcome) = "Ok" THEN
                [face |-> FileFace(font_spec.family, weight, query_style),
                 is_fallback |-> FALSE, not_found |-> None, panic |-> FALSE]
            ELSE IF FontDataFromData(outcome) = "Err" THEN
                [face |-> EmbeddedFace("FONT_CASCADIAMONO_REGULAR"),
                 is_fallback |-> TRUE, not_found |-> Some(font_spec),
                 panic |-> FALSE]
            ELSE
                [face |-> EmbeddedFace("FONT_CASCADIAMONO_REGULAR"),
                 is_fallback |-> TRUE, not_found |-> None, panic |-> TRUE]
        ELSE embedded(None)

\* find_font_path
FindFontPath(d, font_family) ==
    IF d[font_family] \in {"none", "notfile"} THEN None ELSE Some(font_family)

\* FontDataRef
FontDataRef(path, is_emoji) == [path |-> path, is_emoji |-> is_emoji]

\* a load that ignores the family override
LoadRequestsNoOverride(spec) ==
    LET styled(f) == [kind |-> "font",
                      font |-> SugarloafFont(f.family, f.weight, f.style)]
        fallback(name) ==
            IF Contains(name, "Emoji")
            THEN [kind |-> "emoji", font |-> SugarloafFont(name, None, None)]
            ELSE [kind |-> "font",
                  font |-> [DefaultSugarloafFont EXCEPT !.family = name]]
    IN  <<styled(spec.regular), styled(spec.italic), styled(spec.bold),
          styled(spec.bold_italic)>>
        \o [i \in 1..Len(ExternalFallbacks) |-> fallback(ExternalFallbacks[i])]
        \o [i \in 1..Len(spec.extras) |->
              [kind |-> "font",
               font |-> SugarloafFont(spec.extras[i].family,
                                      spec.extras[i].weight,
                                      spec.extras[i].style)]]

\* a load that looks the extras up before the fallback families
LoadRequestsExtrasFirst(spec) ==
    LET family(f) == IF IsSome(spec.family) THEN Unwrap(spec.family) ELSE f.family
        styled(f) == [kind |-> "font",
                      font |-> SugarloafFont(family(f), f.weight, f.style)]
        fallback(name) ==
            IF Contains(name, "Emoji")
            THEN [kind |-> "emoji", font |-> SugarloafFont(name, None, None)]
            ELSE [kind |-> "font",
                  font |-> [DefaultSugarloafFont EXCEPT !.family = name]]
    IN  <<styled(spec.regular), styled(spec.italic), styled(spec.bold),
          styled(spec.bold_italic)>>
        \o [i \in 1..Len(spec.extras) |->
              [kind |-> "font",
               font |-> SugarloafFont(spec.extras[i].family,
                                      spec.extras[i].weight,
                                      spec.extras[i].style)]]
        \o [i \in 1..Len(ExternalFallbacks) |-> fallback(ExternalFallbacks[i])]

\* the body of FontLibraryData::load from the first find_font to the last
\* extra, as the list of lookups it makes in order
LoadRequests(spec) ==
    LET family(f) == IF IsSome(spec.family) THEN Unwrap(spec.family) ELSE f.family
        styled(f) == [kind |-> "font",
                      font |-> SugarloafFont(family(f), f.weight, f.style)]
        fallback(name) ==
            IF Contains(name, "Emoji")
            THEN [kind |-> "emoji", font |-> SugarloafFont(name, None, None)]
            ELSE [kind |-> "font",
                  font |-> [DefaultSugarloafFont EXCEPT !.family = name]]
    IN  <<styled(spec.regular), styled(spec.italic), styled(spec.bold),
          styled(spec.bold_italic)>>
        \o [i \in 1..Len(ExternalFallbacks) |-> fallback(ExternalFallbacks[i])]
        \o [i \in 1..Len(spec.extras) |->
              [kind |-> "font",
               font |-> SugarloafFont(spec.extras[i].family,
                                      spec.extras[i].weight,
                                      spec.extras[i].style)]]

\* FontLibraryData::default(), with nothing reported yet
EmptyLibrary ==
    [inner |-> << >>, lazy_inner |-> << >>, not_found |-> << >>, panic |-> FALSE]

RECURSIVE RunRequests(_, _, _)
RunRequests(d, reqs, acc) ==
    IF reqs = << >> \/ acc.panic THEN acc
    ELSE
        LET r == Head(reqs)
            found == FindFont(d, r.font)
            path == FindFontPath(d, r.font.family)
            next ==
                IF r.kind = "emoji" THEN
                    IF IsSome(path)
                    THEN [acc EXCEPT !.lazy_inner =
                              Append(@, FontDataRef(Unwrap(path), TRUE))]
                    ELSE acc
                ELSE IF found.panic THEN [acc EXCEPT !.panic = TRUE]
                ELSE [acc EXCEPT
                        !.inner = Append(@, found.face),
                        !.not_found = IF IsSome(found.not_found)
                                      THEN Append(@, Unwrap(found.not_found))
                                      ELSE @]
        IN  RunRequests(d, Tail(reqs), next)

\* a load that leaves the symbol face out
LoadWithoutSymbols(d, spec) ==
    RunRequests(d, LoadRequests(spec), EmptyLibrary)

\* FontLibraryData::load
Load(d, spec) ==
    LET r == RunRequests(d, LoadRequests(spec), EmptyLibrary)
    IN  IF r.panic THEN r
        ELSE [r EXCEPT !.inner = Append(@, SymbolFace)]

\* FontLibraryData::len
LibLen(lib) == Len(lib.inner)

\* impl Index<usize> for FontLibraryData
LibAt(lib, font_id) == lib.inner[font_id + 1]

(***************************************************************************)
(* Font resolver: FontContext                                              *)
(***************************************************************************)
\* FragmentStyle.font_attrs as far as map_cluster reads it
Styles == [bold : BOOLEAN, italic : BOOLEAN]
RegularStyle == [bold |-> FALSE, italic |-> FALSE]

\* FontContext::default()
DefaultContext ==
    [cached |-> << >>, emoji |-> None, emoji_last_usage |-> None]

\* HashMap::insert / HashMap::remove on FontContext.cached
CacheInsert(c, id, face) ==
    [k \in (DOMAIN c) \cup {id} |-> IF k = id THEN face ELSE c[k]]
CacheRemove(c, id) == [k \in (DOMAIN c) \ {id} |-> c[k]]

\* FontContext::get
Get(ctx, id) == IF id \in DOMAIN ctx.cached THEN Some(ctx.cached[id]) ELSE None

\* the slot map_cluster picks from the style (lines 84-95)
StyleFontId(style) ==
    IF style.bold /\ style.italic THEN FONT_ID_BOLD_ITALIC
    ELSE IF style.bold THEN FONT_ID_BOLD
    ELSE IF style.italic THEN FONT_ID_ITALIC
    ELSE FONT_ID_REGULAR

\* the loop of lookup_for_best_font from index current_font_id on
RECURSIVE LookupFrom(_, _, _)
LookupFrom(lib, cluster, current_font_id) ==
    IF current_font_id >= LibLen(lib) THEN None
    ELSE IF ClusterMap(LibAt(lib, current_font_id), cluster) /= "Discard"
         THEN Some(current_font_id)
    ELSE LookupFrom(lib, cluster, current_font_id + 1)

\* a scan without the break: the last catalog index whose face maps the cluster
LookupForBestFontLast(lib, cluster) ==
    LET hits == {i \in 0..(LibLen(lib) - 1) :
                    ClusterMap(LibAt(lib, i), cluster) /= "Discard"}
    IN  IF hits = {} THEN None
        ELSE Some(CHOOSE i \in hits : \A j \in hits : j <= i)

\* FontContext::lookup_for_best_font: the first catalog index, if any,
\* whose face maps the cluster
LookupForBestFont(lib, cluster) == LookupFrom(lib, cluster, 0)

\* load_from_data_ref on a file whose state is `file`
LoadFromDataRef(data_ref, file) ==
    IF file \in {"noopen", "noread"} THEN [panic |-> FALSE, face |-> None]
    ELSE IF FontDataFromData(file) = "Ok"
         THEN [panic |-> FALSE, face |-> Some(LazyFace(data_ref.path))]
    ELSE IF FontDataFromData(file) = "Err" THEN [panic |-> FALSE, face |-> None]
    ELSE [panic |-> TRUE, face |-> None]

\* binding.lazy_inner.iter().position(|r| r.is_emoji)
EmojiPosition(lib) ==
    LET hits == {i \in 1..Len(lib.lazy_inner) : lib.lazy_inner[i].is_emoji}
    IN  IF hits = {} THEN None
        ELSE Some(CHOOSE i \in hits : \A j \in hits : i <= j)

\* The outcome of one map_cluster call.
Outcome(ctx, ret, path, loads, scans, synth, panic) ==
    [ctx |-> ctx, ret |-> ret, path |-> path, loads |-> loads,
     scans |-> scans, synth |-> synth, panic |-> panic]

\* eviction that clears the marker and leaves the face in the cache
EvictIdleKeepsFace(ctx, t) ==
    IF IsSome(ctx.emoji_last_usage)
       /\ t - Unwrap(ctx.emoji_last_usage) > IdleSecs
       /\ IsSome(ctx.emoji)
    THEN [cached |-> ctx.cached, emoji |-> None, emoji_last_usage |-> None]
    ELSE ctx

\* eviction that drops the face and leaves the marker and the timestamp
EvictIdleKeepsMarker(ctx, t) ==
    IF IsSome(ctx.emoji_last_usage)
       /\ t - Unwrap(ctx.emoji_last_usage) > IdleSecs
       /\ IsSome(ctx.emoji)
    THEN [ctx EXCEPT !.cached = CacheRemove(@, Unwrap(ctx.emoji))]
    ELSE ctx

\* map_cluster, lines 160-169: drop the emoji face once idle for too long
EvictIdle(ctx, t) ==
    IF IsSome(ctx.emoji_last_usage)
       /\ t - Unwrap(ctx.emoji_last_usage) > IdleSecs
       /\ IsSome(ctx.emoji)
    THEN [cached |-> CacheRemove(ctx.cached, Unwrap(ctx.emoji)),
          emoji |-> None, emoji_last_usage |-> None]
    ELSE ctx

\* a regular path that caches the face of every slot it returns
RegularPathCaches(ctx0, lib, cluster, t, loads) ==
    LET ctx == EvictIdle(ctx0, t)
        hit == ClusterMap(LibAt(lib, FONT_ID_REGULAR), cluster) /= "Discard"
        found == LookupForBestFont(lib, cluster)
        font_id == IF hit THEN FONT_ID_REGULAR ELSE Unwrap(found)
        scans == IF hit THEN 0 ELSE 1
    IN  IF ~hit /\ ~IsSome(found)
        THEN Outcome(ctx, None, "unresolved", loads, scans, None, FALSE)
        ELSE Outcome([ctx EXCEPT !.cached =
                        CacheInsert(@, font_id, LibAt(lib, font_id))],
                     Some(font_id), IF hit THEN "regular" ELSE "fallback",
                     loads, scans, Some(font_id), FALSE)

\* map_cluster, lines 160-194: eviction, the Regular face, then the scan
RegularPath(ctx0, lib, cluster, t, loads) ==
    LET ctx == EvictIdle(ctx0, t)
        hit == ClusterMap(LibAt(lib, FONT_ID_REGULAR), cluster) /= "Discard"
        found == LookupForBestFont(lib, cluster)
        font_id == IF hit THEN FONT_ID_REGULAR ELSE Unwrap(found)
        scans == IF hit THEN 0 ELSE 1
    IN  IF ~hit /\ ~IsSome(found)
        THEN Outcome(ctx, None, "unresolved", loads, scans, None, FALSE)
        ELSE Outcome(IF font_id \in DOMAIN ctx.cached
                     THEN [ctx EXCEPT !.cached =
                              CacheInsert(@, font_id, LibAt(lib, font_id))]
                     ELSE ctx,
                     Some(font_id), IF hit THEN "regular" ELSE "fallback",
                     loads, scans, Some(font_id), FALSE)

\* a styled request that never keeps the face it read
StyledPathUncached(ctx, lib, cluster, style) ==
    LET font_id == StyleFontId(style)
        face == IF font_id \in DOMAIN ctx.cached THEN ctx.cached[font_id]
                ELSE LibAt(lib, font_id)
    IN  Outcome(ctx, Some(font_id), "styled", 0, 0,
                IF ClusterMap(face, cluster) /= "Discard"
                THEN Some(font_id) ELSE None, FALSE)

\* a styled request that reports a missing glyph as unresolved
StyledPathUnresolved(ctx, lib, cluster, style) ==
    LET font_id == StyleFontId(style)
        face == IF font_id \in DOMAIN ctx.cached THEN ctx.cached[font_id]
                ELSE LibAt(lib, font_id)
    IN  IF ClusterMap(face, cluster) /= "Discard"
        THEN Outcome([ctx EXCEPT !.cached = CacheInsert(@, font_id, face)],
                     Some(font_id), "styled", 0, 0, Some(font_id), FALSE)
        ELSE Outcome(ctx, None, "styled", 0, 0, None, FALSE)

\* a styled request that escalates a missing glyph to the fallback scan
StyledPathFallsBack(ctx, lib, cluster, style) ==
    LET font_id == StyleFontId(style)
        face == IF font_id \in DOMAIN ctx.cached THEN ctx.cached[font_id]
                ELSE LibAt(lib, font_id)
        found == LookupForBestFont(lib, cluster)
    IN  IF ClusterMap(face, cluster) /= "Discard"
        THEN Outcome([ctx EXCEPT !.cached = CacheInsert(@, font_id, face)],
                     Some(font_id), "styled", 0, 0, Some(font_id), FALSE)
        ELSE Outcome(ctx, IF IsSome(found) THEN found ELSE Some(font_id),
                     "styled", 0, 1, found, FALSE)

\* map_cluster, lines 88-116: a bold and/or italic request
StyledPath(ctx, lib, cluster, style) ==
    LET font_id == StyleFontId(style)
    IN  IF font_id \in DOMAIN ctx.cached THEN
            Outcome(ctx, Some(font_id), "styled", 0, 0,
                    IF ClusterMap(ctx.cached[font_id], cluster) /= "Discard"
                    THEN Some(font_id) ELSE None, FALSE)
        ELSE IF ClusterMap(LibAt(lib, font_id), cluster) /= "Discard" THEN
            Outcome([ctx EXCEPT !.cached =
                        CacheInsert(@, font_id, LibAt(lib, font_id))],
                    Some(font_id), "styled", 0, 0, Some(font_id), FALSE)
        ELSE Outcome(ctx, Some(font_id), "styled", 0, 0, None, FALSE)

\* map_cluster, lines 119-131: the active emoji face is in the cache
EmojiHit(ctx) ==
    IsSome(ctx.emoji) /\ Unwrap(ctx.emoji) \in DOMAIN ctx.cached

EmojiCached(ctx, cluster, t) ==
    LET emoji_id == Unwrap(ctx.emoji)
        font_id == FONT_ID_REGULAR
    IN  Outcome([ctx EXCEPT !.emoji_last_usage = Some(t)],
                Some(font_id), "emoji_hit", 0, 0,
                IF ClusterMap(ctx.cached[emoji_id], cluster) /= "Discard"
                THEN Some(emoji_id) ELSE None, FALSE)

\* an emoji request that hands out the emoji slot although no lazy entry
\* is flagged is_emoji
EmojiLoadNoRef(ctx, lib, cluster, file, t) ==
    LET pos == EmojiPosition(lib)
        loaded == LoadFromDataRef(lib.lazy_inner[Unwrap(pos)], file)
        font_id == LibLen(lib)
    IN  IF ~IsSome(pos)
        THEN Outcome(ctx, Some(font_id), "emoji_load", 0, 0, None, FALSE)
        ELSE IF loaded.panic
             THEN Outcome(ctx, None, "panic", 1, 0, None, TRUE)
        ELSE IF ~IsSome(loaded.face) THEN RegularPath(ctx, lib, cluster, t, 1)
        ELSE IF ClusterMap(Unwrap(loaded.face), cluster) /= "Discard" THEN
            Outcome([cached |-> CacheInsert(ctx.cached, font_id,
                                            Unwrap(loaded.face)),
                     emoji |-> Some(font_id),
                     emoji_last_usage |-> Some(t)],
                    Some(font_id), "emoji_load", 1, 0, Some(font_id), FALSE)
        ELSE Outcome(ctx, Some(font_id), "emoji_load", 1, 0, None, FALSE)

\* map_cluster, lines 133-157: load the first emoji face of the lazy list
EmojiLoad(ctx, lib, cluster, file, t) ==
    LET pos == EmojiPosition(lib)
        loaded == LoadFromDataRef(lib.lazy_inner[Unwrap(pos)], file)
        font_id == LibLen(lib)
    IN  IF ~IsSome(pos) THEN RegularPath(ctx, lib, cluster, t, 0)
        ELSE IF loaded.panic
             THEN Outcome(ctx, None, "panic", 1, 0, None, TRUE)
        ELSE IF ~IsSome(loaded.face) THEN RegularPath(ctx, lib, cluster, t, 1)
        ELSE IF ClusterMap(Unwrap(loaded.face), cluster) /= "Discard" THEN
            Outcome([cached |-> CacheInsert(ctx.cached, font_id,
                                            Unwrap(loaded.face)),
                     emoji |-> Some(font_id),
                     emoji_last_usage |-> Some(t)],
                    Some(font_id), "emoji_load", 1, 0, Some(font_id), FALSE)
        ELSE Outcome(ctx, Some(font_id), "emoji_load", 1, 0, None, FALSE)

\* whether the call gets as far as load_from_data_ref
ReadsFile(ctx, lib, cluster, style) ==
    /\ ~(style.italic \/ style.bold)
    /\ IsEmoji(cluster)
    /\ ~EmojiHit(ctx)
    /\ IsSome(EmojiPosition(lib))

\* FontContext::map_cluster
MapCluster(ctx, lib, cluster, style, file, t) ==
    IF style.italic \/ style.bold THEN StyledPath(ctx, lib, cluster, style)
    ELSE IF IsEmoji(cluster) THEN
        IF EmojiHit(ctx) THEN EmojiCached(ctx, cluster, t)
        ELSE EmojiLoad(ctx, lib, cluster, file, t)
    ELSE RegularPath(ctx, lib, cluster, t, 0)

(***************************************************************************)
(* Inputs                                                                  *)
(***************************************************************************)
\* sequences over S of length at most n
RECURSIVE SeqsUpTo(_, _)
SeqsUpTo(S, n) ==
    IF n = 0 THEN {<< >>}
    ELSE SeqsUpTo(S, n - 1)
         \cup {Append(q, x) : q \in {r \in SeqsUpTo(S, n - 1) : Len(r) = n - 1},
                              x \in S}

\* SugarloafFonts::default()
DefaultFonts ==
    [family |-> None,
     regular |-> SugarloafFont(DefaultFamily, None, None),
     italic |-> SugarloafFont(DefaultFamily, None, Some("italic")),
     bold |-> SugarloafFont(DefaultFamily, Some(800), None),
     bold_italic |-> SugarloafFont(DefaultFamily, Some(800), Some("italic")),
     extras |-> << >>]

ExtraSpecs == {SugarloafFont(ExtraFont, None, None)}

\* the font configurations FontLibrary::new is given
LoadSpecs ==
    [family : {None, Some(UserMono)},
     regular : {SugarloafFont(f, None, None) : f \in {DefaultFamily, UserMono}},
     italic : {SugarloafFont(DefaultFamily, None, Some(st)) :
                 st \in {"italic", "Italic"}},
     bold : {SugarloafFont(f, Some(w), None) :
                 f \in {DefaultFamily, UserMono}, w \in {700, 800}},
     bold_italic : {SugarloafFont(DefaultFamily, Some(800), Some("italic"))},
     extras : SeqsUpTo(ExtraSpecs, MaxExtras)]

\* the families a configuration makes load look up
UsedFamilies(spec) ==
    {r.font.family : r \in {LoadRequests(spec)[i] :
                              i \in 1..Len(LoadRequests(spec))}}

\* the configurations and font indexes the resolver is exercised on
ResolverSpecs ==
    {DefaultFonts,
     [DefaultFonts EXCEPT !.family = Some(UserMono),
                          !.extras = <<SugarloafFont(ExtraFont, None, None)>>]}

ResolverScenarios ==
    {sc \in ResolverSpecs \X [SystemFamilies -> {"none", "ok"}] :
        /\ \A f \in SystemFamilies \ UsedFamilies(sc[1]) : sc[2][f] = "none"
        /\ sc[1] /= DefaultFonts => (sc[2][UserMono] = "ok" /\ sc[2][NotoSans] = "ok")}

NoCall ==
    [cluster |-> "", style |-> RegularStyle, file |-> "unused", t |-> 0,
     ret |-> None, path |-> "none", loads |-> 0, scans |-> 0, synth |-> None,
     pre |-> DefaultContext]

\* no call under way, no catalog read yet
NoFlight == [pc |-> "idle", cluster |-> "", loads |-> 0, seen |-> {}]

Context == [cached |-> cached, emoji |-> emoji,
            emoji_last_usage |-> emoji_last_usage]

(***************************************************************************)
(* The compositor (Elementary) of sugarloaf/compositors/elementary.rs.     *)
(*                                                                         *)
(* An f32 is an integer count of thousandths; the layouts below keep every *)
(* product and quotient of update exact.                                   *)
(***************************************************************************)
Milli == 1000
F32(n) == n * Milli
Mul(a, b) == (a * b) \div Milli
Div(a, b) == (a * Milli) \div b

\* the slots get_font_id gives a scale of their own
FONT_ID_SYMBOL == 4
FONT_ID_EMOJIS == 5
FONT_ID_UNICODE == 6
FONT_ID_ICONS == 7

\* characters of a line: narrow, wide, of the symbol face, wide of the emoji
\* face, zero-width
CellChars == {"A", "W", "S", "E", "Z"}

\* UnicodeWidthChar::width
UnicodeWidth(c) ==
    IF c \in {"W", "E"} THEN Some(2)
    ELSE IF c = "Z" THEN Some(0)
    ELSE Some(1)

\* the glyphs of each FontArc handed to set_fonts: the four styles of the
\* text face, symbol, emoji, unicode and icon faces
TextFonts ==
    <<{"A", "W", "Z"}, {"A", "W", "Z"}, {"A", "W", "Z"}, {"A", "W", "Z"},
      {"S"}, {"E"}, {}, {}>>
\* a text face that has the symbol too
SymbolTextFonts ==
    <<{"A", "W", "Z", "S"}, {"A", "W", "Z"}, {"A", "W", "Z"}, {"A", "W", "Z"},
      {"S"}, {"E"}, {}, {}>>
FontLists == {TextFonts, SymbolTextFonts}

\* SugarTree: the layout update reads
Layout(width, height, scale, pos, line_height, font_size) ==
    [layout |->
       [dimensions |-> [width |-> width, height |-> height, scale |-> scale],
        style |-> [screen_position |-> pos],
        line_height |-> line_height,
        font_size |-> font_size,
        width |-> F32(800),
        height |-> F32(600)]]
PlainLayout == Layout(F32(8), F32(16), F32(1), <<0, 0>>, F32(1), F32(14))
ScaledLayout ==
    Layout(F32(12), F32(20), F32(2), <<F32(10), F32(20)>>, 1500, F32(18))
\* a screen offset one line step above the origin
NegativeLayout ==
    Layout(F32(8), F32(16), F32(1), <<0, 0 - F32(16)>>, F32(1), F32(14))
Layouts == {PlainLayout, ScaledLayout, NegativeLayout}

\* Fragment: a cell of a line
NoStyle == [is_bold |-> FALSE, is_italic |-> FALSE, is_bold_italic |-> FALSE]
Fragment(content, repeated, style, decoration, cursor) ==
    [content |-> content, repeated |-> repeated, style |-> style,
     decoration |-> decoration,
     cursor |-> [kind |-> cursor, color |-> "cursor"],
     foreground_color |-> "fg", background_color |-> "bg"]
Fragments ==
    {Fragment("A", 0, NoStyle, "Disabled", "Disabled"),
     Fragment("A", 0, NoStyle, "Disabled", "Block"),
     Fragment("A", 2, [NoStyle EXCEPT !.is_bold = TRUE], "Underline", "Disabled"),
     Fragment("W", 0, NoStyle, "Disabled", "Disabled"),
     Fragment("S", 0, [NoStyle EXCEPT !.is_bold_italic = TRUE], "Strikethrough",
              "Caret"),
     Fragment("E", 1, [NoStyle EXCEPT !.is_italic = TRUE], "Disabled", "Underline"),
     Fragment("Z", 0, NoStyle, "Disabled", "Disabled")}

\* Elementary::default()
DefaultElementary ==
    [sugar_cache |-> << >>, rects |-> << >>, sections |-> << >>,
     text_sections |-> << >>, should_resize |-> FALSE, text_y |-> 0,
     current_row |-> 0, fonts |-> << >>, graphic_rects |-> << >>]

\* the first font of the list with a glyph for c, FONT_ID_REGULAR without one
RECURSIVE FirstFontWith(_, _, _)
FirstFontWith(fonts, c, idx) ==
    IF idx >= Len(fonts) THEN FONT_ID_REGULAR
    ELSE IF c \in fonts[idx + 1] THEN idx
    ELSE FirstFontWith(fonts, c, idx + 1)

\* a get_font_id whose cache hits lose the scale override
GetFontIdHitUnscaled(self, sugar, tr) ==
    IF sugar.content \in DOMAIN self.sugar_cache
    THEN [el |-> self,
          cached_sugar |-> [self.sugar_cache[sugar.content]
                              EXCEPT !.px_scale = None]]
    ELSE LET font_id == FirstFontWith(self.fonts, sugar.content, 0)
             w == UnicodeWidth(sugar.content)
             char_width == F32(IF IsSome(w) THEN Unwrap(w) ELSE 1)
             dim == tr.layout.dimensions
             px_scale ==
                 IF font_id = FONT_ID_ICONS
                 THEN Some([x |-> dim.width, y |-> dim.height])
                 ELSE IF font_id \in {FONT_ID_UNICODE, FONT_ID_SYMBOL}
                 THEN Some([x |-> Mul(dim.width, char_width), y |-> dim.height])
                 ELSE IF font_id = FONT_ID_EMOJIS
                 THEN Some([x |-> Mul(dim.width, F32(2)), y |-> dim.height])
                 ELSE None
             cached_sugar == [font_id |-> font_id, char_width |-> char_width,
                              px_scale |-> px_scale]
         IN  [el |-> [self EXCEPT !.sugar_cache =
                                   CacheInsert(@, sugar.content, cached_sugar)],
              cached_sugar |-> cached_sugar]

\* Elementary::get_font_id: the CachedSugar of the cell's character and the
\* cache after the call
GetFontId(self, sugar, tr) ==
    IF sugar.content \in DOMAIN self.sugar_cache
    THEN [el |-> self, cached_sugar |-> self.sugar_cache[sugar.content]]
    ELSE LET font_id == FirstFontWith(self.fonts, sugar.content, 0)
             w == UnicodeWidth(sugar.content)
             char_width == F32(IF IsSome(w) THEN Unwrap(w) ELSE 1)
             dim == tr.layout.dimensions
             px_scale ==
                 IF font_id = FONT_ID_ICONS
                 THEN Some([x |-> dim.width, y |-> dim.height])
                 ELSE IF font_id \in {FONT_ID_UNICODE, FONT_ID_SYMBOL}
                 THEN Some([x |-> Mul(dim.width, char_width), y |-> dim.height])
                 ELSE IF font_id = FONT_ID_EMOJIS
                 THEN Some([x |-> Mul(dim.width, F32(2)), y |-> dim.height])
                 ELSE None
             cached_sugar == [font_id |-> font_id, char_width |-> char_width,
                              px_scale |-> px_scale]
         IN  [el |-> [self EXCEPT !.sugar_cache =
                                   CacheInsert(@, sugar.content, cached_sugar)],
              cached_sugar |-> cached_sugar]

\* a clean that leaves the y-cursor where it is
CleanKeepsTextY(self) ==
    [self EXCEPT !.rects = << >>, !.sections = << >>, !.graphic_rects = << >>,
                 !.current_row = 0, !.should_resize = FALSE]

\* a clean that empties the per-character cache too
CleanDropsCache(self) ==
    [self EXCEPT !.rects = << >>, !.sections = << >>, !.graphic_rects = << >>,
                 !.current_row = 0, !.text_y = 0, !.should_resize = FALSE,
                 !.sugar_cache = << >>]

\* Elementary::clean
Clean(self) ==
    [self EXCEPT !.rects = << >>, !.sections = << >>, !.graphic_rects = << >>,
               !.current_row = 0, !.text_y = 0, !.should_resize = FALSE]

\* Elementary::reset
Reset(self) == Clean([self EXCEPT !.sugar_cache = << >>])

\* Elementary::set_fonts
SetFonts(self, fonts) == [self EXCEPT !.fonts = fonts]

\* Elementary::clean_blocks
CleanBlocks(self) == [self EXCEPT !.text_sections = << >>]

Rect(position, color, size) ==
    [position |-> position, color |-> color, size |-> size]

\* a section slot that ignores the style of the cell
SectionFontIdUnstyled(cached_sugar, cell) == cached_sugar.font_id

\* the slot of the cell's glyph section: a style slot when the character
\* resolved to the regular face and the cell is styled
SectionFontId(cached_sugar, cell) ==
    IF cached_sugar.font_id = FONT_ID_REGULAR
    THEN IF cell.style.is_bold_italic THEN FONT_ID_BOLD_ITALIC
         ELSE IF cell.style.is_bold THEN FONT_ID_BOLD
         ELSE IF cell.style.is_italic THEN FONT_ID_ITALIC
         ELSE cached_sugar.font_id
    ELSE cached_sugar.font_id

\* an x step that ignores the width of the character
AddPosXNarrow(cached_sugar, sugar_x) == sugar_x

\* add_pos_x: the x step of one repeat of the cell
AddPosX(cached_sugar, sugar_x) ==
    IF cached_sugar.char_width > F32(1) THEN sugar_x + sugar_x ELSE sugar_x

\* a quantity that ignores the repeat count
QuantityOne(cell) == F32(1)

\* quantity: the repeats of the cell as an f32
Quantity(cell) == F32(cell.repeated + 1)

\* a block overlay half as wide as the background
CursorRectsHalfBlock(cell, pos, width_bound, quantity, height, tr) ==
    IF cell.cursor.kind = "Block"
    THEN <<Rect(pos, cell.cursor.color,
                <<Mul(width_bound, quantity) \div 2, height>>)>>
    ELSE << >>

\* the rectangle update pushes for the cursor of the cell
CursorRects(cell, pos, width_bound, quantity, height, tr) ==
    IF cell.cursor.kind = "Block"
    THEN <<Rect(pos, cell.cursor.color,
                <<Mul(width_bound, quantity), height>>)>>
    ELSE IF cell.cursor.kind = "Caret"
    THEN <<Rect(pos, cell.cursor.color,
                <<Mul(Mul(width_bound, 20), quantity), height>>)>>
    ELSE IF cell.cursor.kind = "Underline"
    THEN <<Rect(<<pos[1], pos[2] + tr.layout.font_size - 2500>>,
                cell.cursor.color,
                <<Mul(Mul(width_bound, 100), quantity), height>>)>>
    ELSE << >>

\* an underline drawn as two bars
DecorationRectsDouble(cell, pos, width_bound, quantity, height, tr) ==
    IF cell.decoration = "Underline"
    THEN <<Rect(<<pos[1], pos[2] + tr.layout.font_size - F32(1)>>,
                cell.foreground_color,
                <<Mul(width_bound, quantity), Mul(height, 25)>>),
           Rect(<<pos[1], pos[2] + tr.layout.font_size - F32(2)>>,
                cell.foreground_color,
                <<Mul(width_bound, quantity), Mul(height, 25)>>)>>
    ELSE << >>

\* an underline at mid-cell height and a strikethrough near the baseline
DecorationRectsSwapped(cell, pos, width_bound, quantity, height, tr) ==
    IF cell.decoration = "Strikethrough"
    THEN <<Rect(<<pos[1], pos[2] + tr.layout.font_size - F32(1)>>,
                cell.foreground_color,
                <<Mul(width_bound, quantity), Mul(height, 25)>>)>>
    ELSE IF cell.decoration = "Underline"
    THEN <<Rect(<<pos[1], pos[2] + Div(tr.layout.font_size, F32(2))>>,
                cell.foreground_color,
                <<Mul(width_bound, quantity), Mul(height, 25)>>)>>
    ELSE << >>

\* the rectangle update pushes for the decoration of the cell
DecorationRects(cell, pos, width_bound, quantity, height, tr) ==
    IF cell.decoration = "Underline"
    THEN <<Rect(<<pos[1], pos[2] + tr.layout.font_size - F32(1)>>,
                cell.foreground_color,
                <<Mul(width_bound, quantity), Mul(height, 25)>>)>>
    ELSE IF cell.decoration = "Strikethrough"
    THEN <<Rect(<<pos[1], pos[2] + Div(tr.layout.font_size, F32(2))>>,
                cell.foreground_color,
                <<Mul(width_bound, quantity), Mul(height, 25)>>)>>
    ELSE << >>

\* a run of one character whatever the repeat count
RunTextOnce(cell) == <<cell.content>>

\* the text of the cell's run: the character, repeated + 1 times
RunText(cell) == [k \in 1..(cell.repeated + 1) |-> cell.content]

\* a default scale as wide as the cell
DefaultScaleNarrow(tr) ==
    [x |-> tr.layout.dimensions.width, y |-> tr.layout.dimensions.height]

\* the scale of a glyph section without an override
DefaultScale(tr) ==
    [x |-> tr.layout.dimensions.height, y |-> tr.layout.dimensions.height]

\* one iteration of the loop of Elementary::update, the x-cursor being x
UpdateCell(el0, x, cell, tr) ==
    LET dim == tr.layout.dimensions
        screen_position == tr.layout.style.screen_position
        mod_pos_y == screen_position[2]
        mod_text_y == dim.height
        sugar_x == dim.width
        sugar_width == Mul(Mul(dim.width, dim.scale), F32(2))
        unscaled_sugar_height == Div(dim.height, dim.scale)
        rect_pos_x == screen_position[1] + x
        g == GetFontId(el0, cell, tr)
        looked == g.el
        cached_sugar == g.cached_sugar
        font_id == SectionFontId(cached_sugar, cell)
        sugar_char_width == IF cached_sugar.char_width > F32(1)
                            THEN cached_sugar.char_width ELSE F32(1)
        add_pos_x == AddPosX(cached_sugar, sugar_x)
        scale == IF IsSome(cached_sugar.px_scale)
                 THEN Unwrap(cached_sugar.px_scale) ELSE DefaultScale(tr)
        rect_pos_y == looked.text_y + mod_pos_y
        width_bound == Mul(sugar_width, sugar_char_width)
        text == RunText(cell)
        section_pos_x == rect_pos_x
        section_pos_y == mod_text_y + looked.text_y + mod_pos_y
        section ==
            [screen_position |-> <<section_pos_x, section_pos_y>>,
             bounds |-> <<tr.layout.width, tr.layout.height>>,
             text |-> <<[text |-> text, scale |-> scale, font_id |-> font_id,
                         extra |-> [color |-> cell.foreground_color, z |-> 0]]>>,
             layout |-> [single_line |-> TRUE, v_align |-> "Bottom",
                         h_align |-> "Left"]]
        scaled_rect_pos == <<Div(section_pos_x, dim.scale),
                             Div(rect_pos_y, dim.scale)>>
        quantity == Quantity(cell)
        background ==
            Rect(scaled_rect_pos, cell.background_color,
                 <<Mul(width_bound, quantity), unscaled_sugar_height>>)
    IN  [el |-> [looked EXCEPT
                   !.sections = Append(@, section),
                   !.rects = @ \o <<background>>
                               \o CursorRects(cell, scaled_rect_pos, width_bound,
                                              quantity, unscaled_sugar_height, tr)
                               \o DecorationRects(cell, scaled_rect_pos,
                                                  width_bound, quantity,
                                                  unscaled_sugar_height, tr)],
         x |-> x + Mul(add_pos_x, quantity)]

\* a loop that lays the live cells out from the last to the first
RECURSIVE UpdateCellsReversed(_, _, _, _, _)
UpdateCellsReversed(self, x, line, i, tr) ==
    IF i > line.acc THEN [el |-> self, x |-> x]
    ELSE LET r == UpdateCell(self, x, line.inner[line.acc - i + 1], tr)
         IN  UpdateCellsReversed(r.el, r.x, line, i + 1, tr)

\* the loop of Elementary::update over the live cells i..acc of the line
RECURSIVE UpdateCells(_, _, _, _, _)
UpdateCells(self, x, line, i, tr) ==
    IF i > line.acc THEN [el |-> self, x |-> x]
    ELSE LET r == UpdateCell(self, x, line.inner[i], tr)
         IN  UpdateCells(r.el, r.x, line, i + 1, tr)

\* the head of Elementary::update: a compositor at y = 0 starts at the screen
\* offset
Started(self, tr) ==
    IF self.text_y = 0
    THEN [self EXCEPT !.text_y = tr.layout.style.screen_position[2]]
    ELSE self

\* Elementary::update: the compositor after the call and the x-cursor after
\* the last cell
Update(self, line, tr) ==
    LET r == UpdateCells(Started(self, tr), 0, line, 1, tr)
    IN  [el |-> [r.el EXCEPT
                   !.current_row = @ + 1,
                   !.text_y = @ + Mul(tr.layout.dimensions.height,
                                      tr.layout.line_height)],
         x |-> r.x]

\* Elementary::create_section_from_text
CreateSectionFromText(self, text, tr) ==
    LET scale == tr.layout.dimensions.scale
        section ==
            [screen_position |-> <<Mul(text.position[1], scale),
                                   Mul(text.position[2], scale)>>,
             bounds |-> <<tr.layout.width, tr.layout.height>>,
             text |-> <<[text |-> text.content,
                         scale |-> [x |-> Mul(text.font_size, scale),
                                    y |-> Mul(text.font_size, scale)],
                         font_id |-> text.font_id,
                         extra |-> [color |-> text.color, z |-> 0]]>>,
             layout |-> [single_line |-> text.single_line, v_align |-> "Center",
                         h_align |-> "Left"]]
    IN  [self EXCEPT !.text_sections = Append(@, section)]

\* the lines update is given: every cell live, or a dead cell after the live
\* ones
PlainCell == Fragment("A", 0, NoStyle, "Disabled", "Disabled")
Lines ==
    {[inner |-> s, acc |-> Len(s)] : s \in SeqsUpTo(Fragments, MaxCells)}
    \cup {[inner |-> Append(s, PlainCell), acc |-> Len(s)] :
            s \in SeqsUpTo(Fragments, MaxCells - 1)}

Texts ==
    {[content |-> <<"o", "k">>, font_id |-> FONT_ID_REGULAR,
      font_size |-> F32(12), color |-> "fg", single_line |-> TRUE,
      position |-> <<F32(5), F32(5)>>]}

\* before the first operation
NoOperation ==
    [op |-> "none", after |-> "none", line |-> [inner |-> << >>, acc |-> 0],
     x |-> 0, pre |-> DefaultElementary, stale |-> FALSE]

\* no compositor at work
IdleLayout ==
    /\ flight = NoFlight
    /\ el = DefaultElementary
    /\ tree = PlainLayout
    /\ last = NoOperation
    /\ ops = 0

(***************************************************************************)
(* The resolver on a built catalog                                         *)
(***************************************************************************)
Init ==
    /\ \E sc \in ResolverScenarios :
          /\ fonts_spec = sc[1]
          /\ db = sc[2]
          /\ library = [inner |-> Load(sc[2], sc[1]).inner,
                        lazy_inner |-> Load(sc[2], sc[1]).lazy_inner]
          /\ fonts_not_found = Load(sc[2], sc[1]).not_found
          /\ assistant = << >>
    /\ load_status = "done"
    /\ cached = DefaultContext.cached
    /\ emoji = DefaultContext.emoji
    /\ emoji_last_usage = DefaultContext.emoji_last_usage
    /\ now = 0
    /\ call = NoCall
    /\ crashed = FALSE
    /\ IdleLayout

\* time passes; the call that had just returned is no longer the latest event
Tick ==
    /\ ~crashed
    /\ now + TickSecs <= MaxTime
    /\ now' = now + TickSecs
    /\ call' = NoCall
    /\ UNCHANGED <<loadVars, ctxVars, crashed, layoutVars, flight>>

\* one FontContext::map_cluster call
MapClusterCall ==
    /\ ~crashed
    /\ load_status = "done"
    /\ \E cluster \in Chars, style \in Styles :
       \E file \in IF ReadsFile(Context, library, cluster, style)
                   THEN FileOutcomes ELSE {"unused"} :
          LET r == MapCluster(Context, library, cluster, style, file, now)
          IN  /\ cached' = r.ctx.cached
              /\ emoji' = r.ctx.emoji
              /\ emoji_last_usage' = r.ctx.emoji_last_usage
              /\ crashed' = r.panic
              /\ call' = [cluster |-> cluster, style |-> style,
                          file |-> file,
                          t |-> now, ret |-> r.ret, path |-> r.path,
                          loads |-> r.loads, scans |-> r.scans,
                          synth |-> r.synth, pre |-> Context]
    /\ UNCHANGED <<loadVars, now, layoutVars, flight>>

Next == Tick \/ MapClusterCall

Spec == Init /\ [][Next]_vars

(***************************************************************************)
(* Catalog construction                                                    *)
(***************************************************************************)
InitLoad ==
    /\ fonts_spec \in LoadSpecs
    /\ db \in [SystemFamilies -> DbOutcomes]
    /\ \A f \in SystemFamilies \ UsedFamilies(fonts_spec) : db[f] = "none"
    /\ load_status = "new"
    /\ library = [inner |-> << >>, lazy_inner |-> << >>]
    /\ fonts_not_found = << >>
    /\ assistant = << >>
    /\ cached = DefaultContext.cached
    /\ emoji = DefaultContext.emoji
    /\ emoji_last_usage = DefaultContext.emoji_last_usage
    /\ now = 0
    /\ call = NoCall
    /\ crashed = FALSE
    /\ IdleLayout

\* FontLibrary::new: FontLibraryData::default() then load(spec)
FontLibraryNew ==
    /\ load_status = "new"
    /\ LET r == Load(db, fonts_spec)
       IN  /\ load_status' = IF r.panic THEN "panic" ELSE "done"
           /\ library' = [inner |-> r.inner, lazy_inner |-> r.lazy_inner]
           /\ fonts_not_found' = r.not_found
           /\ crashed' = r.panic
    /\ UNCHANGED <<fonts_spec, db, assistant, ctxVars, now, call, layoutVars,
                   flight>>

NextLoad == FontLibraryNew

SpecLoad == InitLoad /\ [][NextLoad]_vars

(***************************************************************************)
(* The application of frontends/rioterm/src/app/mod.rs: it builds the      *)
(* catalog once from the fonts of its configuration and handles the        *)
(* UpdateConfig event.                                                     *)
(***************************************************************************)
\* the font configurations a configuration file gives
AppSpecs ==
    ResolverSpecs \cup {[DefaultFonts EXCEPT !.family = Some(UserMono)]}

\* Config::try_load: a configuration, or an error
ConfigLoads == {[ok |-> TRUE, fonts |-> f] : f \in AppSpecs}
                 \cup {[ok |-> FALSE, fonts |-> DefaultFonts]}

\* the report of a configuration error in the assistant
ConfigErrorReport == [kind |-> "config"]

InitApp ==
    /\ fonts_spec \in AppSpecs
    /\ db \in [SystemFamilies -> {"none", "ok"}]
    /\ load_status = "new"
    /\ library = [inner |-> << >>, lazy_inner |-> << >>]
    /\ fonts_not_found = << >>
    /\ assistant = << >>
    /\ cached = DefaultContext.cached
    /\ emoji = DefaultContext.emoji
    /\ emoji_last_usage = DefaultContext.emoji_last_usage
    /\ now = 0
    /\ call = NoCall
    /\ crashed = FALSE
    /\ IdleLayout

\* AppInstance::new: FontLibrary::new(config.fonts), whose diagnostics stay
\* in a local of FontLibrary::new
AppInstanceNew ==
    /\ load_status = "new"
    /\ LET r == Load(db, fonts_spec)
       IN  /\ load_status' = IF r.panic THEN "panic" ELSE "done"
           /\ library' = [inner |-> r.inner, lazy_inner |-> r.lazy_inner]
           /\ fonts_not_found' = r.not_found
           /\ crashed' = r.panic
    /\ assistant' = assistant
    /\ UNCHANGED <<fonts_spec, db, ctxVars, now, call, layoutVars, flight>>

\* AppInstance::process on RioEvent::UpdateConfig, with or without a route
UpdateConfig ==
    /\ load_status = "done"
    /\ \E loaded \in ConfigLoads, route \in BOOLEAN :
          /\ fonts_spec' = loaded.fonts
          /\ assistant' = IF ~route THEN assistant
                          ELSE IF loaded.ok THEN << >>
                          ELSE <<ConfigErrorReport>>
    /\ UNCHANGED <<db, load_status, library, fonts_not_found, ctxVars, now,
                   call, crashed, layoutVars, flight>>

NextApp == AppInstanceNew \/ UpdateConfig

SpecApp == InitApp /\ [][NextApp]_vars

(***************************************************************************)
(* The resolver while the catalog is reloaded.  map_cluster reads the      *)
(* catalog under the read lock of FontLibrary.inner; a step below is what  *)
(* it does while it holds one guard.  The reload swaps a fully built       *)
(* catalog in under the write lock.                                        *)
(***************************************************************************)
\* a catalog of the default configuration with an emoji family to load
InitReload ==
    /\ Init
    /\ fonts_spec = DefaultFonts
    /\ library.lazy_inner /= << >>

\* map_cluster from its entry to its return, or to the end of the block of
\* lines 133-157 when the emoji face could not be loaded
ResolveBegin ==
    /\ ~crashed
    /\ flight.pc = "idle"
    /\ \E cluster \in Chars, style \in Styles :
       \E file \in IF ReadsFile(Context, library, cluster, style)
                   THEN FileOutcomes ELSE {"unused"} :
          LET r == MapCluster(Context, library, cluster, style, file, now)
              seen == IF ~(style.italic \/ style.bold) /\ IsEmoji(cluster)
                         /\ EmojiHit(Context)
                      THEN {} ELSE {library}
          IN  IF /\ ReadsFile(Context, library, cluster, style)
                 /\ r.path \in {"regular", "fallback", "unresolved"}
              THEN /\ flight' = [pc |-> "regular", cluster |-> cluster,
                                 loads |-> r.loads, seen |-> seen]
                   /\ call' = [NoCall EXCEPT !.cluster = cluster, !.file = file]
                   /\ UNCHANGED <<ctxVars, crashed>>
              ELSE /\ flight' = [NoFlight EXCEPT !.seen = seen]
                   /\ cached' = r.ctx.cached
                   /\ emoji' = r.ctx.emoji
                   /\ emoji_last_usage' = r.ctx.emoji_last_usage
                   /\ crashed' = r.panic
                   /\ call' = [cluster |-> cluster, style |-> style,
                               file |-> file,
                               t |-> now, ret |-> r.ret, path |-> r.path,
                               loads |-> r.loads, scans |-> r.scans,
                               synth |-> r.synth, pre |-> Context]
    /\ UNCHANGED <<loadVars, now, layoutVars>>

\* map_cluster from line 160 to its return, under the guard of line 171
ResolveRegular ==
    /\ flight.pc = "regular"
    /\ LET r == RegularPath(Context, library, flight.cluster, now, flight.loads)
       IN  /\ cached' = r.ctx.cached
           /\ emoji' = r.ctx.emoji
           /\ emoji_last_usage' = r.ctx.emoji_last_usage
           /\ call' = [call EXCEPT !.t = now, !.ret = r.ret, !.path = r.path,
                                   !.loads = r.loads, !.scans = r.scans,
                                   !.synth = r.synth, !.pre = Context]
           /\ flight' = [NoFlight EXCEPT !.seen = flight.seen \cup {library}]
    /\ UNCHANGED <<loadVars, now, crashed, layoutVars>>

\* another thread reloads: a catalog built whole by FontLibraryData::load
\* replaces the one behind the lock
Reload ==
    /\ ~crashed
    /\ \E sc \in ResolverScenarios :
          LET built == Load(sc[2], sc[1])
          IN  /\ sc[1] = DefaultFonts
              /\ built.lazy_inner /= << >>
              /\ built.inner /= library.inner
              /\ fonts_spec' = sc[1]
              /\ db' = sc[2]
              /\ library' = [inner |-> built.inner,
                             lazy_inner |-> built.lazy_inner]
              /\ fonts_not_found' = built.not_found
    /\ UNCHANGED <<load_status, assistant, ctxVars, now, call, crashed,
                   layoutVars, flight>>

NextReload == ResolveBegin \/ ResolveRegular \/ Reload

SpecReload == InitReload /\ [][NextReload]_vars

\* no catalog built, no resolver at work
IdleResolver ==
    /\ fonts_spec = DefaultFonts
    /\ db = [f \in SystemFamilies |-> "none"]
    /\ load_status = "new"
    /\ library = [inner |-> << >>, lazy_inner |-> << >>]
    /\ fonts_not_found = << >>
    /\ assistant = << >>
    /\ cached = DefaultContext.cached
    /\ emoji = DefaultContext.emoji
    /\ emoji_last_usage = DefaultContext.emoji_last_usage
    /\ now = 0
    /\ call = NoCall
    /\ crashed = FALSE
    /\ flight = NoFlight

(***************************************************************************)
(* The compositor driven by its owner                                      *)
(***************************************************************************)
\* Elementary::default(), with or without the owner's first set_fonts
InitLayout ==
    /\ IdleResolver
    /\ el \in {DefaultElementary, SetFonts(DefaultElementary, TextFonts)}
    /\ tree \in Layouts
    /\ last = NoOperation
    /\ ops = 0

\* what every operation records: its name and the one before it, its line,
\* the x-cursor it ended with, the compositor before it, and whether the fonts
\* or the layout have changed while the cache held entries made before
Operation(name, line, x) ==
    /\ ops < MaxOps
    /\ ops' = ops + 1
    /\ last' = [op |-> name, after |-> last.op, line |-> line, x |-> x,
                pre |-> el,
                stale |-> IF name = "reset" THEN FALSE
                          ELSE IF name \in {"set_fonts", "layout"}
                          THEN last.stale \/ el.sugar_cache /= << >>
                          ELSE last.stale]
    /\ UNCHANGED resolverVars

\* one line is laid out
UpdateCall ==
    \E line \in Lines :
        /\ Len(el.sections) + line.acc <= MaxCells
        /\ LET r == Update(el, line, tree)
           IN  /\ el' = r.el
               /\ Operation("update", line, r.x)
        /\ UNCHANGED tree

CleanCall ==
    /\ el' = Clean(el)
    /\ Operation("clean", NoOperation.line, 0)
    /\ UNCHANGED tree

ResetCall ==
    /\ el' = Reset(el)
    /\ Operation("reset", NoOperation.line, 0)
    /\ UNCHANGED tree

SetFontsCall ==
    \E fonts \in FontLists :
        /\ fonts /= el.fonts
        /\ el' = SetFonts(el, fonts)
        /\ Operation("set_fonts", NoOperation.line, 0)
        /\ UNCHANGED tree

CleanBlocksCall ==
    /\ el' = CleanBlocks(el)
    /\ Operation("clean_blocks", NoOperation.line, 0)
    /\ UNCHANGED tree

CreateSectionFromTextCall ==
    \E text \in Texts :
        /\ Len(el.text_sections) < MaxTexts
        /\ el' = CreateSectionFromText(el, text, tree)
        /\ Operation("create_section_from_text", NoOperation.line, 0)
        /\ UNCHANGED tree

\* the owner changes the layout dimensions
SetLayout ==
    \E tr \in Layouts :
        /\ tr /= tree
        /\ tree' = tr
        /\ Operation("layout", NoOperation.line, 0)
        /\ UNCHANGED el

NextLayout ==
    \/ UpdateCall
    \/ CleanCall
    \/ ResetCall
    \/ SetFontsCall
    \/ CleanBlocksCall
    \/ CreateSectionFromTextCall
    \/ SetLayout

SpecLayout == InitLayout /\ [][NextLayout]_vars

(***************************************************************************)
(* Properties of the resolver                                              *)
(***************************************************************************)
Called == call.path /= "none"
Returned == call.path \notin {"none", "panic"}
Styled == call.style.bold \/ call.style.italic

\* an emoji face was active and idle for more than the threshold when the
\* last call was made
StaleBefore ==
    /\ IsSome(call.pre.emoji)
    /\ IsSome(call.pre.emoji_last_usage)
    /\ call.t - Unwrap(call.pre.emoji_last_usage) > IdleSecs

\* C1: an emoji cluster resolved twice in a row with the regular style, the
\* first call loading and installing the emoji face and the second made
\* within the idle window, gets the same slot both times and the file is read
\* once in all.
C1_EmojiTwiceSameSlotOneRead ==
    [][(/\ call' /= call
        /\ call.path = "emoji_load"
        /\ call.style = RegularStyle
        /\ ~IsSome(call.pre.emoji)
        /\ emoji = call.ret
        /\ call'.cluster = call.cluster
        /\ call'.style = RegularStyle
        /\ call'.t - call.t <= IdleSecs)
       => (/\ call'.ret = call.ret
           /\ call.loads + call'.loads = 1)]_vars

\* C2: the slot a call returns is the slot a resolver without any history
\* returns for the same cluster, style and file state.
C2_SlotIndependentOfHistory ==
    (load_status = "done" /\ ~crashed) =>
        \A cluster \in Chars, style \in Styles, file \in FileOutcomes :
            LET mine == MapCluster(Context, library, cluster, style, file, now)
                fresh == MapCluster(DefaultContext, library, cluster, style,
                                    file, now)
            IN  (~mine.panic /\ ~fresh.panic) => mine.ret = fresh.ret

\* C3: a bold and/or italic request returns the slot of its style (italic 1,
\* bold 2, bold italic 3), whether or not that face has the glyph, and never
\* unresolved.
C3_StyledReturnsStyleSlot ==
    (Called /\ Styled) =>
        call.ret = IF call.style.bold /\ call.style.italic THEN <<3>>
                   ELSE IF call.style.bold THEN <<2>>
                   ELSE <<1>>

C3_Witness ==
    /\ call.path = "styled"
    /\ call.style = [bold |-> TRUE, italic |-> FALSE]
    /\ call.cluster \notin Charmap(LibAt(library, 2))
    /\ call.ret = <<2>>

\* C4 as stated: no call, whatever its style, runs the fallback scan.
C4_NoCallScans == Called => call.scans = 0

\* C4 amended: no bold and/or italic call runs the fallback scan.
C4_StyledNeverScans == (Called /\ Styled) => call.scans = 0

C4_Witness ==
    /\ call.path = "styled"
    /\ call.cluster \notin Charmap(LibAt(library, Unwrap(call.ret)))
    /\ \E i \in 0..(LibLen(library) - 1) :
          call.cluster \in Charmap(LibAt(library, i))
    /\ call.scans = 0

\* the catalog indexes whose face has a glyph for the cluster
Covering(lib, cluster) ==
    {i \in 0..(LibLen(lib) - 1) : cluster \in Charmap(LibAt(lib, i))}

\* C5: a regular-style call that the emoji path did not answer returns
\* Regular(0) if the Regular face has the glyph, else the lowest catalog index
\* whose face has it, else unresolved.
C5_RegularThenLowestIndex ==
    (Returned /\ ~Styled /\ call.path \notin {"emoji_hit", "emoji_load"}) =>
        LET covering == Covering(library, call.cluster)
        IN  IF 0 \in covering THEN call.ret = <<0>>
            ELSE IF covering /= {}
                 THEN /\ IsSome(call.ret)
                      /\ Unwrap(call.ret) \in covering
                      /\ \A i \in covering : Unwrap(call.ret) <= i
            ELSE call.ret = None

C5_Witness ==
    /\ Returned /\ ~Styled
    /\ Cardinality(Covering(library, call.cluster)) >= 2
    /\ 0 \notin Covering(library, call.cluster)
    /\ IsSome(call.ret)
    /\ Unwrap(call.ret) > 0

\* every eagerly loaded face but the trailing symbol face is the embedded
\* default face
OnlyDefaultLoaded(lib) ==
    \A i \in 1..(Len(lib.inner) - 1) : lib.inner[i].src = "embedded"

ReturnsDefaultFaceSlot ==
    /\ call.ret = <<0>>
    /\ LibAt(library, 0).src = "embedded"

\* C6 as stated: on a catalog of default faces only, a regular-style call for
\* a character the default face has returns the default face's slot, emoji-
\* classified characters included.
C6_DefaultFaceSlot ==
    (Returned /\ ~Styled /\ OnlyDefaultLoaded(library)
       /\ call.cluster \in DefaultCharmap)
    => ReturnsDefaultFaceSlot

\* C6 amended: the same, for characters that are not classified as emoji, and
\* for emoji-classified ones when the catalog has no emoji entry in its lazy
\* list.
C6_DefaultFaceSlotUnlessEmojiRef ==
    (Returned /\ ~Styled /\ OnlyDefaultLoaded(library)
       /\ call.cluster \in DefaultCharmap
       /\ (~IsEmoji(call.cluster) \/ ~IsSome(EmojiPosition(library))))
    => ReturnsDefaultFaceSlot

C6_Witness ==
    /\ Returned /\ ~Styled /\ OnlyDefaultLoaded(library)
    /\ call.cluster \in DefaultCharmap
    /\ IsEmoji(call.cluster)
    /\ ~IsSome(EmojiPosition(library))
    /\ call.ret = <<0>>

\* C7: whatever the cluster and style of a call, an emoji face that was idle
\* for more than 4 seconds when the call was made is out of the cache, and
\* the marker and the timestamp are cleared, when the call returns.
C7_EveryCallEvictsIdleEmoji ==
    (Returned /\ StaleBefore) =>
        /\ Unwrap(call.pre.emoji) \notin DOMAIN cached
        /\ emoji = None
        /\ emoji_last_usage = None

\* C8: a regular-style call made once the emoji face has been idle for more
\* than 4 seconds reads the emoji file if and only if its cluster is an emoji.
C8_LoadAfterIdleIffEmoji ==
    (Called /\ ~Styled /\ StaleBefore) =>
        (call.loads > 0 <=> IsEmoji(call.cluster))

\* the cached slots that hold a face loaded from the lazy list
LazySlots == {s \in DOMAIN cached : cached[s].src = "lazy"}

\* C9: the cache holds at most one face loaded from the lazy list, and the
\* emoji marker names its slot.
C9_AtMostOneEmojiFace ==
    /\ Cardinality(LazySlots) <= 1
    /\ \A s \in LazySlots : emoji = <<s>>

\* an emoji face is loaded again after an earlier one was in use
C9_Witness ==
    /\ call.path = "emoji_load"
    /\ LazySlots = {Unwrap(call.ret)}
    /\ emoji = call.ret
    /\ call.t > IdleSecs

(***************************************************************************)
(* Properties of catalog construction                                      *)
(***************************************************************************)
\* C10: FontLibraryData::load completes for every configuration and every
\* state of the font index and the files, and slots 0 to 3 then hold a face.
C10_LoadNeverFails ==
    load_status /= "new" =>
        /\ load_status = "done"
        /\ Len(library.inner) >= 4

\* the face is what find_font gives for a request of this family, weight and
\* style: the face of the family's file, or the embedded face of that weight
\* and style
AnswersRequest(face, family, weight, style) ==
    LET w == IF IsSome(weight) THEN Unwrap(weight) ELSE DefaultWeight
        italic == IsSome(style) /\ Unwrap(style) \in {"italic", "Italic"}
    IN  \/ /\ face.src = "file"
           /\ face.name = family
           /\ face.weight = w
           /\ face.style = IF italic THEN "Italic" ELSE "Normal"
        \/ /\ face.src = "embedded"
           /\ face.name = <<EmbeddedFontToLoad(w, IF italic THEN "italic"
                                                            ELSE "normal")>>

\* the family a style request is looked up under
RequestFamily(f) ==
    IF IsSome(fonts_spec.family) THEN Unwrap(fonts_spec.family) ELSE f.family

IsEmojiFamily(name) == Contains(name, "Emoji")
IsTextFamily(name) == ~Contains(name, "Emoji")
TextFallbacks == SelectSeq(ExternalFallbacks, IsTextFamily)
EmojiFallbacks == SelectSeq(ExternalFallbacks, IsEmojiFamily)

\* the loaded faces are the four styles, the text fallbacks, the extras and
\* the symbol face, in this order, and none of them is an emoji family
EagerFacesInOrder ==
    LET inner == library.inner
        nf == Len(TextFallbacks)
        ne == Len(fonts_spec.extras)
    IN  /\ Len(inner) = 4 + nf + ne + 1
        /\ AnswersRequest(inner[1], RequestFamily(fonts_spec.regular),
                          fonts_spec.regular.weight, fonts_spec.regular.style)
        /\ AnswersRequest(inner[2], RequestFamily(fonts_spec.italic),
                          fonts_spec.italic.weight, fonts_spec.italic.style)
        /\ AnswersRequest(inner[3], RequestFamily(fonts_spec.bold),
                          fonts_spec.bold.weight, fonts_spec.bold.style)
        /\ AnswersRequest(inner[4], RequestFamily(fonts_spec.bold_italic),
                          fonts_spec.bold_italic.weight,
                          fonts_spec.bold_italic.style)
        /\ \A i \in 1..nf :
              AnswersRequest(inner[4 + i], TextFallbacks[i], None, None)
        /\ \A j \in 1..ne :
              AnswersRequest(inner[4 + nf + j], fonts_spec.extras[j].family,
                             fonts_spec.extras[j].weight,
                             fonts_spec.extras[j].style)
        /\ inner[4 + nf + ne + 1].src = "symbols"
        /\ \A i \in 1..Len(inner) : ~IsEmojiFamily(inner[i].name)

\* the lazy list is, in fallback order, the emoji families that satisfy Found,
\* each flagged is_emoji
FoundByIndex(name) == db[name] /= "none"
FoundWithFile(name) == db[name] \notin {"none", "notfile"}

\* C11 as stated: after build the loaded faces are regular, italic, bold,
\* bold-italic, the non-emoji fallbacks, the extras, the symbol face; no emoji
\* family is loaded, and every emoji family the font index finds is a lazy
\* entry flagged is_emoji.
C11_CatalogOrder ==
    load_status = "done" =>
        /\ EagerFacesInOrder
        /\ library.lazy_inner =
             [i \in 1..Len(SelectSeq(EmojiFallbacks, FoundByIndex)) |->
                [path |-> SelectSeq(EmojiFallbacks, FoundByIndex)[i],
                 is_emoji |-> TRUE]]

\* C11 amended: the same, the lazy entries being the emoji families for which
\* the font index gives a file path.
C11_CatalogOrderFilePaths ==
    load_status = "done" =>
        /\ EagerFacesInOrder
        /\ library.lazy_inner =
             [i \in 1..Len(SelectSeq(EmojiFallbacks, FoundWithFile)) |->
                [path |-> SelectSeq(EmojiFallbacks, FoundWithFile)[i],
                 is_emoji |-> TRUE]]

\* every family is found: file faces in every slot but the last, one lazy
\* entry
C11_Witness ==
    /\ load_status = "done"
    /\ Len(fonts_spec.extras) >= 1
    /\ \A i \in 1..(Len(library.inner) - 1) : library.inner[i].src = "file"
    /\ library.inner[5].name /= library.inner[6].name
    /\ Len(library.lazy_inner) = 1

\* the eager requests of load, by 0-based slot: family, weight, style
EagerRequest(slot) ==
    LET nf == Len(TextFallbacks)
    IN  IF slot = 0 THEN SugarloafFont(RequestFamily(fonts_spec.regular),
                                       fonts_spec.regular.weight,
                                       fonts_spec.regular.style)
        ELSE IF slot = 1 THEN SugarloafFont(RequestFamily(fonts_spec.italic),
                                            fonts_spec.italic.weight,
                                            fonts_spec.italic.style)
        ELSE IF slot = 2 THEN SugarloafFont(RequestFamily(fonts_spec.bold),
                                            fonts_spec.bold.weight,
                                            fonts_spec.bold.style)
        ELSE IF slot = 3 THEN SugarloafFont(RequestFamily(fonts_spec.bold_italic),
                                            fonts_spec.bold_italic.weight,
                                            fonts_spec.bold_italic.style)
        ELSE IF slot < 4 + nf THEN SugarloafFont(TextFallbacks[slot - 3], None, None)
        ELSE fonts_spec.extras[slot - 3 - nf]

\* C12: after a completed load, every eager request of a system family that
\* the font index does not find, or whose file cannot be opened or read, has
\* the embedded face in its slot and its family, weight and style in the
\* list load returns.
C12_FailedLookupReported ==
    load_status = "done" =>
        \A slot \in 0..(Len(library.inner) - 2) :
            LET req == EagerRequest(slot)
            IN  (req.family /= DefaultFamily
                   /\ db[req.family] \in {"none", "noopen", "noread", "badfont"})
                => /\ library.inner[slot + 1].src = "embedded"
                   /\ \E k \in 1..Len(fonts_not_found) : fonts_not_found[k] = req

(***************************************************************************)
(* The compositor on the resolver's catalog: the owner hands the faces of  *)
(* the catalog to set_fonts and lays out cells of the resolver's           *)
(* characters.                                                             *)
(***************************************************************************)
\* the glyphs of the catalog's faces, in catalog order
CatalogFonts(lib) ==
    [i \in 1..Len(lib.inner) |->
        {c \in Chars : ClusterMap(lib.inner[i], c) /= "Discard"}]

\* the style flags of a cell asking for the resolver's style request
CellStyle(style) ==
    [is_bold |-> style.bold, is_italic |-> style.italic,
     is_bold_italic |-> style.bold /\ style.italic]

\* the resolver's style request of a cell's flags
StyleRequest(cell) ==
    [bold |-> cell.style.is_bold \/ cell.style.is_bold_italic,
     italic |-> cell.style.is_italic \/ cell.style.is_bold_italic]

SetFontsFromCatalog ==
    /\ el.fonts = << >>
    /\ el' = SetFonts(el, CatalogFonts(library))
    /\ Operation("set_fonts", NoOperation.line, 0)
    /\ UNCHANGED tree

\* a line of one cell is laid out
LayoutCellCall ==
    \E cluster \in Chars, style \in Styles :
        LET cell == Fragment(cluster, 0, CellStyle(style), "Disabled",
                             "Disabled")
            line == [inner |-> <<cell>>, acc |-> 1]
            r == Update(el, line, tree)
        IN  /\ Len(el.sections) + 1 <= MaxCells
            /\ el' = r.el
            /\ Operation("update", line, r.x)
            /\ UNCHANGED tree

NextFrame == SetFontsFromCatalog \/ LayoutCellCall

SpecFrame == Init /\ [][NextFrame]_vars

(***************************************************************************)
(* Properties of the compositor                                            *)
(***************************************************************************)
\* the compositor's fields are of their types
ElementaryTypeOK ==
    /\ DOMAIN el.sugar_cache \subseteq CellChars
    /\ Len(el.sections) <= MaxCells
    /\ el.current_row \in 0..MaxOps
    /\ ops \in 0..MaxOps

\* the last operation was Elementary::update
Laid == last.op = "update"
LiveCells == 1..last.line.acc
Cell(i) == last.line.inner[i]

\* the rectangles a cell asks for: background, cursor, decoration
RectCount(cell) ==
    1 + (IF cell.cursor.kind /= "Disabled" THEN 1 ELSE 0)
      + (IF cell.decoration /= "Disabled" THEN 1 ELSE 0)

RECURSIVE RectsBefore(_, _)
RectsBefore(line, i) ==
    IF i = 0 THEN 0 ELSE RectsBefore(line, i - 1) + RectCount(line.inner[i])

\* the glyph section and the first rectangle the last update pushed for its
\* i-th cell
SectionOf(i) == el.sections[Len(last.pre.sections) + i]
FirstRectOf(i) == Len(last.pre.rects) + RectsBefore(last.line, i - 1) + 1

\* the columns a character takes, and the advance of a cell: the cell width
\* by its columns and repeats
Columns(c) == IF UnicodeWidth(c) = Some(2) THEN 2 ELSE 1
CellAdvance(cell, tr) ==
    tr.layout.dimensions.width * Columns(cell.content) * (cell.repeated + 1)

RECURSIVE Advances(_, _, _)
Advances(line, i, tr) ==
    IF i = 0 THEN 0
    ELSE Advances(line, i - 1, tr) + CellAdvance(line.inner[i], tr)

\* the compositor and x-cursor of the last update before its i-th cell
BeforeCell(i) ==
    UpdateCells(Started(last.pre, tree), 0, [last.line EXCEPT !.acc = i - 1],
                1, tree)

\* C14: an update of a line of N live cells of repeat count 0 appends N glyph
\* sections and N rectangles plus one per cursor cell plus one per decorated
\* cell, and ends with the x-cursor at the sum of the cells' advances.
C14_SectionsRectsAdvance ==
    (Laid /\ \A i \in LiveCells : Cell(i).repeated = 0) =>
        /\ Len(el.sections) = Len(last.pre.sections) + last.line.acc
        /\ Len(el.rects) >= Len(last.pre.rects) + last.line.acc
        /\ Len(el.rects) =
             Len(last.pre.rects) + last.line.acc
             + Cardinality({i \in LiveCells : Cell(i).cursor.kind /= "Disabled"})
             + Cardinality({i \in LiveCells : Cell(i).decoration /= "Disabled"})
        /\ last.x = Advances(last.line, last.line.acc, tree)

C14_Witness ==
    /\ Laid
    /\ last.line.acc = 2
    /\ \A i \in LiveCells : Cell(i).repeated = 0
    /\ Cell(1).cursor.kind = "Caret" /\ Cell(1).decoration = "Strikethrough"
    /\ Cell(2).content = "W"
    /\ last.x = 3 * tree.layout.dimensions.width

\* C15: a cell of repeat count k gets one glyph section and one background
\* rectangle; the rectangle's width and the x advance are k+1 times those
\* of the same cell with repeat count 0.
C15_RepeatScalesWidthAndAdvance ==
    Laid =>
        /\ Len(el.sections) = Len(last.pre.sections) + last.line.acc
        /\ \A i \in LiveCells :
            LET k == Cell(i).repeated
                before == BeforeCell(i)
                zero == UpdateCell(before.el, before.x,
                                   [Cell(i) EXCEPT !.repeated = 0], tree)
                this == UpdateCell(before.el, before.x, Cell(i), tree)
                zero_rect == zero.el.rects[Len(before.el.rects) + 1]
            IN  /\ Len(SectionOf(i).text[1].text) = k + 1
                /\ el.rects[FirstRectOf(i)].color = Cell(i).background_color
                /\ \A j \in 1..(RectCount(Cell(i)) - 1) :
                      el.rects[FirstRectOf(i) + j].color
                          /= Cell(i).background_color
                /\ el.rects[FirstRectOf(i)].size[1] = (k + 1) * zero_rect.size[1]
                /\ this.x - before.x = (k + 1) * (zero.x - before.x)
                /\ i = last.line.acc => this.x = last.x

C15_Witness ==
    /\ Laid
    /\ last.line.acc = 2
    /\ Cell(2).repeated = 2
    /\ el.rects[FirstRectOf(2)].size[1] > 0
    /\ last.x > BeforeCell(2).x

\* the slots whose glyphs get_font_id gives a scale of their own
ScaledSlots == {FONT_ID_SYMBOL, FONT_ID_EMOJIS, FONT_ID_UNICODE, FONT_ID_ICONS}

\* the i-th cell of the last update advanced x by twice the advance of a
\* width-1 cell of its repeat count
AdvancedTwice(i) ==
    UpdateCell(BeforeCell(i).el, BeforeCell(i).x, Cell(i), tree).x
      - BeforeCell(i).x
    = 2 * tree.layout.dimensions.width * (Cell(i).repeated + 1)

\* C16 as stated: a cell of a width-2 character advances x by twice the
\* advance of a width-1 cell of the same repeat count, and its glyph section
\* carries a scale override whichever slot the character resolved to.
C16_WideAlwaysOverridden ==
    Laid =>
        \A i \in LiveCells :
            UnicodeWidth(Cell(i).content) = Some(2) =>
                /\ AdvancedTwice(i)
                /\ IsSome(el.sugar_cache[Cell(i).content].px_scale)

\* C16 amended: the advance is doubled; the section carries a scale override
\* exactly when the character resolved to the symbol, emoji, unicode or icon
\* slot, and the default cell scale in every other slot.
C16_WideOverriddenInScaledSlots ==
    Laid =>
        \A i \in LiveCells :
            UnicodeWidth(Cell(i).content) = Some(2) =>
                LET cached_sugar == el.sugar_cache[Cell(i).content]
                IN  /\ AdvancedTwice(i)
                    /\ IsSome(cached_sugar.px_scale)
                         <=> cached_sugar.font_id \in ScaledSlots
                    /\ SectionOf(i).text[1].scale =
                         IF cached_sugar.font_id \in ScaledSlots
                         THEN Unwrap(cached_sugar.px_scale)
                         ELSE DefaultScale(tree)

\* a wide character of the emoji slot and one of the regular slot in one line
C16_Witness ==
    /\ Laid
    /\ last.line.acc = 2
    /\ Cell(1).content = "E" /\ SectionOf(1).text[1].font_id = FONT_ID_EMOJIS
    /\ Cell(2).content = "W" /\ SectionOf(2).text[1].font_id = FONT_ID_REGULAR
    /\ SectionOf(1).text[1].scale /= SectionOf(2).text[1].scale

\* C17: a layout of a line right after reset gives the rectangles and glyph
\* sections that a compositor new from Elementary::default() with the same
\* fonts gives for that line and layout, so two such layouts give the same.
C17_ResetThenLayoutRepeats ==
    (Laid /\ last.after = "reset") =>
        LET fresh == Update(SetFonts(DefaultElementary, el.fonts), last.line,
                            tree).el
        IN  /\ el.rects = fresh.rects
            /\ el.sections = fresh.sections

C17_Witness ==
    /\ Laid
    /\ last.after = "reset"
    /\ ops = 3
    /\ last.line.acc = 2
    /\ tree = ScaledLayout

\* the rectangles and sections the last update would have left had the cache
\* been cleared just before it
ClearedFirst ==
    Update([last.pre EXCEPT !.sugar_cache = << >>], last.line, tree).el

\* C18 as stated: after any earlier layouts, set_fonts and layout changes, an
\* update leaves the rectangles and sections it leaves with the cache
\* cleared just before it.
C18_CacheNeverMatters ==
    Laid => (el.rects = ClearedFirst.rects /\ el.sections = ClearedFirst.sections)

\* C18 amended: that holds when neither the fonts nor the layout dimensions
\* have changed while the cache held entries.
C18_CacheOfSameFontsAndLayout ==
    (Laid /\ ~last.stale) =>
        (el.rects = ClearedFirst.rects /\ el.sections = ClearedFirst.sections)

\* a hit on an entry that carries a scale override
C18_Witness ==
    /\ Laid
    /\ ~last.stale
    /\ last.line.acc >= 1
    /\ Cell(1).content \in DOMAIN last.pre.sugar_cache
    /\ IsSome(last.pre.sugar_cache[Cell(1).content].px_scale)

\* C19: a cell under a block cursor gets its background rectangle, then one
\* rectangle of the same position and size in the cursor's color, and one
\* glyph section; the first cell of a line at screen offset 0 has all three
\* at x = 0.
C19_BlockCursorOverlay ==
    Laid =>
        \A i \in LiveCells :
            Cell(i).cursor.kind = "Block" =>
                LET background == el.rects[FirstRectOf(i)]
                    overlay == el.rects[FirstRectOf(i) + 1]
                IN  /\ background.color = Cell(i).background_color
                    /\ overlay.position = background.position
                    /\ overlay.size = background.size
                    /\ overlay.color = Cell(i).cursor.color
                    /\ RectCount(Cell(i)) = 2
                    /\ Len(el.sections) = Len(last.pre.sections) + last.line.acc
                    /\ (i = 1 /\ tree.layout.style.screen_position[1] = 0) =>
                          /\ background.position[1] = 0
                          /\ overlay.position[1] = 0
                          /\ SectionOf(i).screen_position[1] = 0

C19_Witness ==
    /\ Laid
    /\ last.line.acc = 1
    /\ Cell(1).cursor.kind = "Block"
    /\ tree = PlainLayout
    /\ Len(el.rects) = Len(last.pre.rects) + 2
    /\ el.rects[Len(el.rects)].size[1] > 0

\* C20: clean empties the rectangles and glyph sections and zeroes the row
\* counter and the y-cursor, and leaves the per-character cache, the fonts
\* and the text sections as they were; only reset takes entries out of the
\* cache.
C20_CleanKeepsCache ==
    /\ last.op = "clean" =>
          /\ el.rects = << >> /\ el.sections = << >>
          /\ el.current_row = 0 /\ el.text_y = 0
          /\ el.sugar_cache = last.pre.sugar_cache
          /\ el.fonts = last.pre.fonts
          /\ el.text_sections = last.pre.text_sections
    /\ (last.op \notin {"none", "reset"}) =>
          /\ DOMAIN last.pre.sugar_cache \subseteq DOMAIN el.sugar_cache
          /\ \A c \in DOMAIN last.pre.sugar_cache :
                el.sugar_cache[c] = last.pre.sugar_cache[c]
    /\ last.op = "reset" => el.sugar_cache = << >>

C20_Witness ==
    /\ last.op = "clean"
    /\ last.pre.rects /= << >> /\ last.pre.sections /= << >>
    /\ last.pre.current_row = 1 /\ last.pre.text_y /= 0
    /\ last.pre.sugar_cache /= << >>
    /\ last.pre.text_sections /= << >>

(***************************************************************************)
(* Properties of the resolver under reload                                 *)
(***************************************************************************)
\* C13: a map_cluster call that has returned has made all its catalog reads
\* (charmap tests, lazy-list scan, catalog length, fallback scan) on one
\* catalog, also when a reload ran during the call.
C13_CallReadsOneCatalog ==
    flight.pc = "idle" => Cardinality(flight.seen) <= 1

(***************************************************************************)
(* More properties of the resolver                                         *)
(***************************************************************************)
\* the last call was for an emoji cluster in regular style with no emoji
\* face to hit
EmojiMiss ==
    /\ Called
    /\ ~Styled
    /\ IsEmoji(call.cluster)
    /\ ~EmojiHit(call.pre)

\* C23: an emoji cluster resolved with no active emoji face, the first lazy
\* entry flagged is_emoji loading well: the face is in the cache under the
\* returned slot, the marker is that slot, the timestamp is the time of the
\* call.
C23_EmojiLoadInstalls ==
    (EmojiMiss /\ IsSome(EmojiPosition(library)) /\ call.file = "ok") =>
        /\ call.ret = Some(LibLen(library))
        /\ LibLen(library) \in DOMAIN cached
        /\ emoji = call.ret
        /\ emoji_last_usage = Some(call.t)

\* C24: an emoji cluster for which no emoji face can be loaded (no lazy
\* entry flagged is_emoji, or a file that cannot be opened, read or parsed):
\* the call returns what the regular path returns for the cluster, and the
\* marker stays unset.
C24_EmojiLoadFailureFallsThrough ==
    (EmojiMiss /\ (~IsSome(EmojiPosition(library)) \/ call.file /= "ok")) =>
        /\ call.path /= "panic"
        /\ call.ret = RegularPath(call.pre, library, call.cluster, call.t, 0).ret
        /\ emoji = None

\* the slot of the last call's style, and whether the cache held it before
StyleSlot == StyleFontId(call.style)

\* C25 as stated: after a bold and/or italic call the cache holds the
\* catalog's face of the returned slot, found in its charmap or not.
C25_StyledAlwaysCached ==
    (Returned /\ Styled) =>
        /\ StyleSlot \in DOMAIN cached
        /\ cached[StyleSlot] = LibAt(library, StyleSlot)

\* C25 amended: a styled call that finds the slot in the cache leaves the
\* cache as it is; one that does not reads the catalog's face and keeps it
\* only when the cluster is in its charmap.
C25_StyledCachedWhenMapped ==
    (Returned /\ Styled) =>
        IF StyleSlot \in DOMAIN call.pre.cached THEN cached = call.pre.cached
        ELSE IF ClusterMap(LibAt(library, StyleSlot), call.cluster) /= "Discard"
        THEN cached = CacheInsert(call.pre.cached, StyleSlot,
                                  LibAt(library, StyleSlot))
        ELSE cached = call.pre.cached

C25_Witness ==
    /\ Returned /\ Styled
    /\ StyleSlot \notin DOMAIN call.pre.cached
    /\ StyleSlot \in DOMAIN cached
    /\ call.synth = Some(StyleSlot)

(***************************************************************************)
(* More properties of the compositor                                       *)
(***************************************************************************)
\* the slot the style flags of a cell ask for
StyleSlotOf(style) ==
    IF style.is_bold_italic THEN FONT_ID_BOLD_ITALIC
    ELSE IF style.is_bold THEN FONT_ID_BOLD
    ELSE IF style.is_italic THEN FONT_ID_ITALIC
    ELSE FONT_ID_REGULAR
IsStyled(cell) == StyleSlotOf(cell.style) /= FONT_ID_REGULAR

C27_CachedWidthOneOrTwo ==
    \A c \in DOMAIN el.sugar_cache :
        el.sugar_cache[c].char_width \in {F32(1), F32(2)}

\* the rectangles the last update pushed for its i-th cell
RectsOf(i) ==
    SubSeq(el.rects, FirstRectOf(i), FirstRectOf(i) + RectCount(Cell(i)) - 1)
ColorsOf(i) == [k \in DOMAIN RectsOf(i) |-> RectsOf(i)[k].color]

\* C28: a caret overlay starts at the cell's position with the cell's height
\* and 2% of its total width; an underline cursor overlay is lower than the
\* cell is high and as wide as the cell in total; both have the cursor's
\* color; a cell without a cursor has no overlay.
C28_CaretAndUnderlineCursor ==
    Laid =>
        \A i \in LiveCells :
            LET background == RectsOf(i)[1]
                overlay == RectsOf(i)[2]
            IN  /\ Cell(i).cursor.kind = "Caret" =>
                     /\ overlay.color = Cell(i).cursor.color
                     /\ overlay.position = background.position
                     /\ overlay.size = <<Mul(background.size[1], 20),
                                         background.size[2]>>
                /\ Cell(i).cursor.kind = "Underline" =>
                     /\ overlay.color = Cell(i).cursor.color
                     /\ overlay.size[2] < background.size[2]
                     /\ overlay.size[1] = background.size[1]
                     /\ overlay.position[2] > background.position[2]
                /\ Cell(i).cursor.kind = "Disabled" =>
                     \A k \in DOMAIN RectsOf(i) :
                         RectsOf(i)[k].color /= Cell(i).cursor.color

\* the bars of the i-th cell: its rectangles in the foreground color
BarsOf(i) ==
    {k \in DOMAIN RectsOf(i) : RectsOf(i)[k].color = Cell(i).foreground_color}

\* C29: an underlined or struck-through cell gets exactly one bar in its
\* foreground color, as wide as the cell with its repeats and thinner than
\* the cell is high; the strikethrough lies at mid height of the font size,
\* the underline one unit above the font size, which is lower on the screen;
\* an undecorated cell gets no bar.
C29_DecorationBar ==
    Laid =>
        \A i \in LiveCells :
            LET background == RectsOf(i)[1]
                bar == RectsOf(i)[RectCount(Cell(i))]
                mid == background.position[2]
                         + Div(tree.layout.font_size, F32(2))
                base == background.position[2] + tree.layout.font_size - F32(1)
            IN  IF Cell(i).decoration = "Disabled" THEN BarsOf(i) = {}
                ELSE /\ BarsOf(i) = {RectCount(Cell(i))}
                     /\ bar.size[1] = background.size[1]
                     /\ background.size[1] =
                          (Cell(i).repeated + 1)
                          * UpdateCell(BeforeCell(i).el, BeforeCell(i).x,
                                       [Cell(i) EXCEPT !.repeated = 0],
                                       tree).el.rects[FirstRectOf(i)].size[1]
                     /\ bar.size[2] < background.size[2]
                     /\ bar.position[1] = background.position[1]
                     /\ mid < base
                     /\ Cell(i).decoration = "Underline" =>
                          bar.position[2] = base
                     /\ Cell(i).decoration = "Strikethrough" =>
                          bar.position[2] = mid

C29_Witness ==
    /\ Laid
    /\ last.line.acc = 2
    /\ Cell(1).decoration = "Underline" /\ Cell(1).repeated = 2
    /\ Cell(2).decoration = "Strikethrough"
    /\ BarsOf(1) = {2}
    /\ BarsOf(2) = {3}
    /\ RectsOf(1)[2].position[2] - RectsOf(1)[1].position[2]
         > RectsOf(2)[3].position[2] - RectsOf(2)[1].position[2]

\* the colors of the rectangles a cell asks for, in the order of the loop
\* body: background, cursor, decoration
ColorsAsked(cell) ==
    <<cell.background_color>>
    \o (IF cell.cursor.kind /= "Disabled" THEN <<cell.cursor.color>> ELSE << >>)
    \o (IF cell.decoration /= "Disabled" THEN <<cell.foreground_color>>
        ELSE << >>)

\* C30: one update appends its rectangles cell after cell from left to
\* right, each cell's background, then its cursor overlay, then its
\* decoration bar, and its i-th glyph section holds the text of the i-th
\* live cell at that cell's column.
C30_AppendedInColumnOrder ==
    Laid =>
        /\ Len(el.sections) = Len(last.pre.sections) + last.line.acc
        /\ Len(el.rects) =
             Len(last.pre.rects) + RectsBefore(last.line, last.line.acc)
        /\ SubSeq(el.rects, 1, Len(last.pre.rects)) = last.pre.rects
        /\ SubSeq(el.sections, 1, Len(last.pre.sections)) = last.pre.sections
        /\ \A i \in LiveCells :
            /\ ColorsOf(i) = ColorsAsked(Cell(i))
            /\ SectionOf(i).text[1].text =
                 [k \in 1..(Cell(i).repeated + 1) |-> Cell(i).content]
            /\ SectionOf(i).screen_position[1] =
                 tree.layout.style.screen_position[1]
                 + Advances(last.line, i - 1, tree)
            /\ \A k \in DOMAIN RectsOf(i) :
                 RectsOf(i)[k].position[1] =
                   Div(SectionOf(i).screen_position[1],
                       tree.layout.dimensions.scale)
            /\ i > 1 => RectsOf(i - 1)[1].position[1] < RectsOf(i)[1].position[1]

C30_Witness ==
    /\ Laid
    /\ last.line.acc = 2
    /\ Cell(1).cursor.kind = "Caret" /\ Cell(1).decoration = "Strikethrough"
    /\ Cell(2).content = "E"
    /\ ColorsOf(1) = <<"bg", "cursor", "fg">>
    /\ ColorsOf(2) = <<"bg", "cursor">>
    /\ SectionOf(2).text[1].text = <<"E", "E">>

\* C21: the slot of a cell's glyph section is the slot the resolver returns
\* for the cell's character and the style request of the cell's flags, the
\* compositor holding the faces of the resolver's catalog.
C21_SectionSlotIsResolverSlot ==
    (Laid /\ last.pre.fonts = CatalogFonts(library)) =>
        \A i \in LiveCells :
            \E file \in FileOutcomes :
                MapCluster(Context, library, Cell(i).content,
                           StyleRequest(Cell(i)), file, now).ret
                  = Some(SectionOf(i).text[1].font_id)

\* the y step of one line, and the rows laid out before the last update
LineStep(tr) == Mul(tr.layout.dimensions.height, tr.layout.line_height)
Rows == last.pre.current_row

\* the last update and the Rows updates before it followed a clear with
\* nothing but updates between them
ConsecutiveRows ==
    /\ Laid
    /\ \/ Rows = 0
       \/ Rows = 1 /\ last.after = "update"
       \/ Rows = ops - 1

\* C31: after a clear the k-th consecutive update leaves the row counter at
\* k and the y-cursor k line steps below the screen offset, and its
\* sections lie k - 1 line steps below those of the first line.
C31_RowsAdvanceByLineStep ==
    ConsecutiveRows =>
        LET offset == tree.layout.style.screen_position[2]
        IN  /\ el.current_row = Rows + 1
            /\ el.text_y = offset + (Rows + 1) * LineStep(tree)
            /\ \A i \in LiveCells :
                 SectionOf(i).screen_position[2] =
                   tree.layout.dimensions.height + offset + offset
                   + Rows * LineStep(tree)

\* C32: the run of the section of a cell of repeat count k is k + 1 copies
\* of the cell's character.
C32_RunRepeatsCharacter ==
    Laid =>
        \A i \in LiveCells :
            LET run == SectionOf(i).text[1].text
            IN  /\ Len(SectionOf(i).text) = 1
                /\ Len(run) = Cell(i).repeated + 1
                /\ \A k \in 1..Len(run) : run[k] = Cell(i).content

C32_Witness ==
    /\ Laid
    /\ last.line.acc = 2
    /\ Cell(1).repeated = 2
    /\ Cell(2).repeated = 0
    /\ SectionOf(1).text[1].text = <<"A", "A", "A">>
    /\ Len(SectionOf(2).text[1].text) = 1

\* C33: the section of a cell has the default cell scale unless the cached
\* slot of its character is the symbol, unicode, emoji or icon slot, and the
\* override cached with that slot if it is; it lies at the screen x offset
\* plus the x-cursor, aligned bottom and left.
C33_SectionScaleAndPosition ==
    Laid =>
        \A i \in LiveCells :
            LET cached_sugar == el.sugar_cache[Cell(i).content]
                section == SectionOf(i)
            IN  /\ cached_sugar.font_id \notin ScaledSlots =>
                     section.text[1].scale =
                       [x |-> tree.layout.dimensions.height,
                        y |-> tree.layout.dimensions.height]
                /\ cached_sugar.font_id \in ScaledSlots =>
                     /\ IsSome(cached_sugar.px_scale)
                     /\ section.text[1].scale = Unwrap(cached_sugar.px_scale)
                /\ section.screen_position[1] =
                     tree.layout.style.screen_position[1] + BeforeCell(i).x
                /\ section.layout.v_align = "Bottom"
                /\ section.layout.h_align = "Left"

C33_Witness ==
    /\ Laid
    /\ tree = ScaledLayout
    /\ last.line.acc = 2
    /\ Cell(1).content = "A"
    /\ Cell(2).content = "S"
    /\ SectionOf(1).text[1].scale = [x |-> F32(20), y |-> F32(20)]
    /\ SectionOf(2).text[1].scale = [x |-> F32(12), y |-> F32(20)]
    /\ SectionOf(2).screen_position[1] = F32(10) + F32(12)

\* C36: every slot a call returns names a face at hand: a face of the
\* catalog or a face of the resolver's cache.
C36_ReturnedSlotHasFace ==
    (Returned /\ IsSome(call.ret)) =>
        \/ Unwrap(call.ret) < LibLen(library)
        \/ IsSome(Get(Context, Unwrap(call.ret)))

\* C37: the emoji marker is set exactly when the timestamp is, and the slot
\* it names has a face in the cache.
C37_MarkerStampAndFace ==
    /\ IsSome(emoji) <=> IsSome(emoji_last_usage)
    /\ IsSome(emoji) => Unwrap(emoji) \in DOMAIN cached

\* the marker was set and an idle eviction has cleared it
C37_Witness ==
    /\ Called
    /\ IsSome(call.pre.emoji)
    /\ Unwrap(call.pre.emoji) \in DOMAIN call.pre.cached
    /\ emoji = None
    /\ emoji_last_usage = None
    /\ Unwrap(call.pre.emoji) \notin DOMAIN cached

\* the last call was answered by the regular path
RegularAnswer == Called /\ call.path \in {"regular", "fallback"}

\* C38: a call answered by the regular path leaves the cache with the slots
\* it had, but for an evicted emoji slot, and with the faces it had, but for
\* the returned slot.
C38_RegularPathAddsNoSlot ==
    RegularAnswer =>
        /\ DOMAIN cached \subseteq DOMAIN call.pre.cached
        /\ \A k \in DOMAIN call.pre.cached \ DOMAIN cached :
             call.pre.emoji = Some(k)
        /\ \A k \in DOMAIN cached :
             k /= Unwrap(call.ret) => cached[k] = call.pre.cached[k]
        /\ Unwrap(call.ret) \in DOMAIN cached =>
             cached[Unwrap(call.ret)] = LibAt(library, Unwrap(call.ret))

C38_Witness ==
    /\ RegularAnswer
    /\ call.pre.cached /= << >>
    /\ Unwrap(call.ret) \notin DOMAIN call.pre.cached
    /\ DOMAIN cached = DOMAIN call.pre.cached

(***************************************************************************)
(* More properties of catalog construction                                 *)
(***************************************************************************)
\* C39: a built catalog has 4 + the text fallbacks + the extras + 1 faces
\* whatever the font index finds: a text fallback or extra not found has
\* the embedded face in its slot, an emoji family not found has no slot and
\* no lazy entry.
C39_FaceCount ==
    load_status = "done" =>
        LET nf == Len(TextFallbacks)
            ne == Len(fonts_spec.extras)
        IN  /\ LibLen(library) = 4 + nf + ne + 1
            /\ \A i \in 1..nf :
                 db[TextFallbacks[i]] = "none" =>
                     library.inner[4 + i].src = "embedded"
            /\ \A i \in 1..ne :
                 db[fonts_spec.extras[i].family] = "none" =>
                     library.inner[4 + nf + i].src = "embedded"
            /\ \A i \in 1..LibLen(library) :
                 library.inner[i].src = "file" =>
                     ~IsEmojiFamily(library.inner[i].name)
            /\ (\A i \in 1..Len(EmojiFallbacks) : db[EmojiFallbacks[i]] = "none")
                 => library.lazy_inner = << >>

C39_Witness ==
    /\ load_status = "done"
    /\ Len(fonts_spec.extras) = 1
    /\ db[NotoSans] = "none"
    /\ db[ExtraFont] = "none"
    /\ db[NotoEmoji] = "none"
    /\ LibLen(library) = 7
    /\ library.inner[5].src = "embedded"
    /\ library.inner[6].src = "embedded"
    /\ library.lazy_inner = << >>

\* C40: with the family override set, the four style faces are looked up
\* under the override family with the weight and style of their own
\* request; the fallback families and the extras are looked up as
\* configured.
C40_OverrideKeepsWeightAndStyle ==
    (load_status = "done" /\ IsSome(fonts_spec.family)) =>
        LET family == Unwrap(fonts_spec.family)
            looked(f) == FindFont(db, SugarloafFont(family, f.weight,
                                                    f.style)).face
            nf == Len(TextFallbacks)
        IN  /\ library.inner[1] = looked(fonts_spec.regular)
            /\ library.inner[2] = looked(fonts_spec.italic)
            /\ library.inner[3] = looked(fonts_spec.bold)
            /\ library.inner[4] = looked(fonts_spec.bold_italic)
            /\ \A i \in 1..nf :
                 library.inner[4 + i] =
                   FindFont(db, SugarloafFont(TextFallbacks[i], None,
                                              None)).face
            /\ \A i \in 1..Len(fonts_spec.extras) :
                 library.inner[4 + nf + i] =
                   FindFont(db, fonts_spec.extras[i]).face

C40_Witness ==
    /\ load_status = "done"
    /\ fonts_spec.family = Some(UserMono)
    /\ fonts_spec.regular.family = DefaultFamily
    /\ fonts_spec.bold.weight = Some(700)
    /\ db[UserMono] = "ok"
    /\ db[ExtraFont] = "ok"
    /\ Len(fonts_spec.extras) = 1
    /\ library.inner[3] = FileFace(UserMono, 700, "Normal")
    /\ library.inner[2].style = "Italic"
    /\ library.inner[6].name = ExtraFont

(***************************************************************************)
(* Properties of the application                                           *)
(***************************************************************************)
\* C34: every font-not-found diagnostic of the catalog's construction is
\* reported to the host's assistant once the catalog is built, and no
\* diagnostic stops the construction.
C34_DiagnosticsSurfaced ==
    /\ load_status /= "panic"
    /\ load_status = "done" =>
         \A k \in 1..Len(fonts_not_found) :
             \E j \in 1..Len(assistant) :
                 assistant[j] = [kind |-> "font_not_found",
                                 font |-> fonts_not_found[k]]

\* C35: once built, the catalog is the one built from the font
\* configuration in force, also after an UpdateConfig that changed it.
C35_CatalogFollowsConfig ==
    load_status = "done" =>
        /\ library.inner = Load(db, fonts_spec).inner
        /\ library.lazy_inner = Load(db, fonts_spec).lazy_inner

====
